---- MODULE Spec2Model ----
(***************************************************************************)
(* A model of the animated-GIF encoder of assets/js/twitter-gif.js:        *)
(* quantizeFrame / medianCut / findNearest, lzwEncode / writeBits,         *)
(* encodeAnimatedGif and the frame-capture loop of convertVideoToGif.      *)
(*                                                                         *)
(* Every variable is the activation record of one function of the source:  *)
(* its fields are the function's parameters and locals, under the names    *)
(* the source gives them, plus a field pc for the position in its body.    *)
(***************************************************************************)
EXTENDS Integers, Sequences, FiniteSets, TLC

VARIABLES
    lzw,    \* activation of lzwEncode(indexedPixels, colorDepth)
    dec,    \* the reference GIF LZW decoder that reads lzwEncode's output
    quant,  \* activation of quantizeFrame(imageData), medianCut inlined
    gif,    \* activation of encodeAnimatedGif(frames, width, height, delay)
    conv,   \* activation of convertVideoToGif(videoUrl), its promise and video
    ctl,    \* the controllers' state and the page's download button
    page    \* one script's controller: processUrl, its fetch and the actions

vars == <<lzw, dec, quant, gif, conv, ctl, page>>

\* what the steps of one function leave alone
exceptLzw == <<dec, quant, gif, conv, ctl, page>>

exceptDec == <<lzw, quant, gif, conv, ctl, page>>

exceptQuant == <<lzw, dec, gif, conv, ctl, page>>

exceptGif == <<lzw, dec, quant, conv, ctl, page>>

exceptConv == <<lzw, dec, quant, gif, ctl, page>>

exceptConvGif == <<lzw, dec, quant, ctl, page>>

exceptCtl == <<lzw, dec, quant, gif, conv, page>>

exceptPage == <<lzw, dec, quant, gif, conv, ctl>>

----------------------------------------------------------------------------
(* Bounds of the model.                                                    *)

\* colour depths 1..MaxDepth are tried with every short index sequence
MaxDepth == 2
\* every index sequence of length 0..MaxLen is tried
MaxLen == 4
\* the short index sequences are over 0..MaxIndex
MaxIndex == 3
\* number of indices the long, reset-forcing input continues after the reset
TailLen == 3

----------------------------------------------------------------------------
(* Small arithmetic helpers for JavaScript's integer operators.            *)

Pow2(n) == 2 ^ n

Max(a, b) == IF a > b THEN a ELSE b

Min(a, b) == IF a < b THEN a ELSE b

\* a | b on non-negative 32-bit operands, bit by bit
RECURSIVE BitOr(_, _)
BitOr(a, b) ==
    IF a = 0 THEN b
    ELSE IF b = 0 THEN a
    ELSE Max(a % 2, b % 2) + 2 * BitOr(a \div 2, b \div 2)

\* the value JavaScript yields for a missing array element or Map entry
Undefined == -1

\* ToInt32 as applied by << to its left operand: undefined becomes 0
ToInt32(x) == IF x = Undefined THEN 0 ELSE x

----------------------------------------------------------------------------
(* lzwEncode                                                               *)

maxCodeLimit == 4096

MinCodeSize(colorDepth) == Max(2, colorDepth)

ClearCode(colorDepth) == Pow2(MinCodeSize(colorDepth))

EoiCode(colorDepth) == ClearCode(colorDepth) + 1

\* The dictionary's keys are the strings "a,b,c" built from String(index) and
\* ','; that text is one-to-one with the sequence <<a, b, c>> of indices, which
\* is the key here.  String(undefined) is the key <<Undefined>>.
StringOf(x) == <<x>>

Combine(current, next) == current \o next

\* for (i = 0; i < clearCode; i++) dict.set(String(i), i)
InitialDict(clearCode) ==
    [k \in {StringOf(j) : j \in 0 .. clearCode - 1} |-> k[1]]

\* dict.get(key): undefined when the key is absent
DictGet(dict, key) == IF key \in DOMAIN dict THEN dict[key] ELSE Undefined

\* indexedPixels[i] with i counted from 0: undefined past the end
PixelAt(indexedPixels, i) ==
    IF i + 1 <= Len(indexedPixels) THEN indexedPixels[i + 1] ELSE Undefined

\* a writeBits that lets a sub-block grow to 256 bytes
RECURSIVE DrainBitsLate(_)
DrainBitsLate(e) ==
    IF e.blockBits < 8 THEN e
    ELSE LET sb == Append(e.subBlock, e.blockBuf % 256)
             full == Len(sb) = 256
         IN  DrainBitsLate([e EXCEPT
                 !.subBlock = IF full THEN <<>> ELSE sb,
                 !.output = IF full THEN (@ \o <<Len(sb)>>) \o sb ELSE @,
                 !.blockBuf = @ \div 256,
                 !.blockBits = @ - 8])

\* the while loop of writeBits: move whole bytes from blockBuf to subBlock and
\* flush subBlock to output each time it holds 255 bytes
RECURSIVE DrainBits(_)
DrainBits(e) ==
    IF e.blockBits < 8 THEN e
    ELSE LET sb == Append(e.subBlock, e.blockBuf % 256)
             full == Len(sb) = 255
         IN  DrainBits([e EXCEPT
                 !.subBlock = IF full THEN <<>> ELSE sb,
                 !.output = IF full THEN (@ \o <<Len(sb)>>) \o sb ELSE @,
                 !.blockBuf = @ \div 256,
                 !.blockBits = @ - 8])

\* writeBits(code, size); codes records the arguments of every call
WriteBits(e, code, size) ==
    DrainBits([e EXCEPT
        !.blockBuf = BitOr(@, ToInt32(code) * Pow2(e.blockBits)),
        !.blockBits = @ + size,
        !.codes = Append(@, <<code, size>>)])

\* lines 546-586: the set-up, the first clear code, current = first index
LzwEnter(indexedPixels, colorDepth) ==
    LET e0 == [indexedPixels |-> indexedPixels,
               colorDepth |-> colorDepth,
               output |-> <<MinCodeSize(colorDepth)>>,
               codeSize |-> MinCodeSize(colorDepth) + 1,
               nextCode |-> EoiCode(colorDepth) + 1,
               dict |-> InitialDict(ClearCode(colorDepth)),
               subBlock |-> <<>>,
               blockBits |-> 0,
               blockBuf |-> 0,
               codes |-> <<>>,
               current |-> StringOf(PixelAt(indexedPixels, 0)),
               i |-> 1,
               resets |-> 0,
               pc |-> "loop"]
    IN  WriteBits(e0, ClearCode(colorDepth), e0.codeSize)

\* the three branches of the loop body (lines 589-614)
NextKey(e) == StringOf(PixelAt(e.indexedPixels, e.i))

Combined(e) == Combine(e.current, NextKey(e))

\* dict.has(combined): current = combined
LzwExtendStep(e) == [e EXCEPT !.current = Combined(e), !.i = @ + 1]

\* a widening one entry too early
GrowCodeSizeEarly(nextCode, codeSize) ==
    IF nextCode >= Pow2(codeSize) /\ codeSize < 12 THEN codeSize + 1 ELSE codeSize

\* the new code widens the codes once it no longer fits
GrowCodeSize(nextCode, codeSize) ==
    IF nextCode > Pow2(codeSize) /\ codeSize < 12 THEN codeSize + 1 ELSE codeSize

\* nextCode < maxCodeLimit: emit current, add combined, maybe widen
LzwAddStep(e) ==
    LET w == WriteBits(e, DictGet(e.dict, e.current), e.codeSize)
    IN  [w EXCEPT
            !.dict = (Combined(e) :> e.nextCode) @@ @,
            !.nextCode = @ + 1,
            !.codeSize = GrowCodeSize(e.nextCode + 1, @),
            !.current = NextKey(e),
            !.i = @ + 1]

\* a reset that leaves the code width where it was
LzwResetStepKeepWidth(e) ==
    LET w1 == WriteBits(e, DictGet(e.dict, e.current), e.codeSize)
        w2 == WriteBits(w1, ClearCode(e.colorDepth), e.codeSize)
    IN  [w2 EXCEPT
            !.dict = InitialDict(ClearCode(e.colorDepth)),
            !.nextCode = EoiCode(e.colorDepth) + 1,
            !.current = NextKey(e),
            !.i = @ + 1,
            !.resets = @ + 1]

\* otherwise: emit current, emit the clear code, reset the dictionary
LzwResetStep(e) ==
    LET w1 == WriteBits(e, DictGet(e.dict, e.current), e.codeSize)
        w2 == WriteBits(w1, ClearCode(e.colorDepth), e.codeSize)
    IN  [w2 EXCEPT
            !.dict = InitialDict(ClearCode(e.colorDepth)),
            !.nextCode = EoiCode(e.colorDepth) + 1,
            !.codeSize = MinCodeSize(e.colorDepth) + 1,
            !.current = NextKey(e),
            !.i = @ + 1,
            !.resets = @ + 1]

\* an end that forgets the pending prefix
LzwFinishStepNoPrefix(e) ==
    LET w2 == WriteBits(e, EoiCode(e.colorDepth), e.codeSize)
        sb == IF w2.blockBits > 0
              THEN Append(w2.subBlock, w2.blockBuf % 256)
              ELSE w2.subBlock
        out == IF Len(sb) > 0 THEN (w2.output \o <<Len(sb)>>) \o sb ELSE w2.output
    IN  [w2 EXCEPT !.subBlock = sb, !.output = Append(out, 0), !.pc = "done"]

\* lines 617-633: the pending prefix, the end code, the flush, the terminator
LzwFinishStep(e) ==
    LET w1 == WriteBits(e, DictGet(e.dict, e.current), e.codeSize)
        w2 == WriteBits(w1, EoiCode(e.colorDepth), e.codeSize)
        sb == IF w2.blockBits > 0
              THEN Append(w2.subBlock, w2.blockBuf % 256)
              ELSE w2.subBlock
        out == IF Len(sb) > 0 THEN (w2.output \o <<Len(sb)>>) \o sb ELSE w2.output
    IN  [w2 EXCEPT !.subBlock = sb, !.output = Append(out, 0), !.pc = "done"]

InLoop(e) == e.pc = "loop" /\ e.i < Len(e.indexedPixels)

HasCombined(e) == Combined(e) \in DOMAIN e.dict

\* one pass of the for loop, or the code after it
LzwStep(e) ==
    IF ~InLoop(e) THEN LzwFinishStep(e)
    ELSE IF HasCombined(e) THEN LzwExtendStep(e)
    ELSE IF e.nextCode < maxCodeLimit THEN LzwAddStep(e)
    ELSE LzwResetStep(e)

\* the activation after n more passes of the loop (or the code after it)
RECURSIVE LzwAdvance(_, _)
LzwAdvance(e, n) ==
    IF n = 0 THEN e
    ELSE IF n = 1 THEN LzwStep(e)
    ELSE LET half == LzwAdvance(e, n \div 2)
         IN  IF half.pc = "done" THEN half ELSE LzwAdvance(half, n - (n \div 2))

\* the loop runs once per pixel after the first, then the code after it runs
LzwRun(e) == LzwAdvance(e, Len(e.indexedPixels) + 1)

\* lzwEncode(indexedPixels, colorDepth) as a whole: the bytes it returns
LzwEncode(indexedPixels, colorDepth) ==
    LzwRun(LzwEnter(indexedPixels, colorDepth)).output

----------------------------------------------------------------------------
(* quantizeFrame, medianCut, findNearest                                   *)
(*                                                                         *)
(* An ImageData is [width, height, data], data being the RGBA bytes, kept  *)
(* four by four: data[p] is <<r, g, b, a>> of pixel p (counted from 1).    *)
(* A colour or sample is <<r, g, b>>.                                      *)

\* the budget of samples that sets sampleStep (line 445)
sampleBudget == 10000

\* the maxColors quantizeFrame passes to medianCut and the palette's entries
maxColors == 256

\* pixels[k] with k counted from 0
ByteAt(pixels, k) == pixels[(k \div 4) + 1][(k % 4) + 1]

\* lines 445-450: samples of every sampleStep-th pixel, from pixel 0 on
SampleStep(numPixels) == Max(1, numPixels \div sampleBudget)

\* the loop runs for i = 0, sampleStep, 2 * sampleStep, ... while i < numPixels
SampleCount(numPixels, sampleStep) == (numPixels + sampleStep - 1) \div sampleStep

\* a sampler that starts one byte late: green, blue, alpha
SampleAtShifted(pixels, i) ==
    <<ByteAt(pixels, i * 4 + 1), ByteAt(pixels, i * 4 + 2), ByteAt(pixels, i * 4 + 3)>>

SampleAt(pixels, i) ==
    <<ByteAt(pixels, i * 4), ByteAt(pixels, i * 4 + 1), ByteAt(pixels, i * 4 + 2)>>

SamplesFrom(pixels, numPixels, sampleStep) ==
    [k \in 1 .. SampleCount(numPixels, sampleStep) |->
        SampleAt(pixels, (k - 1) * sampleStep)]

\* pixels.length / 4
NumPixels(imageData) == Len(imageData.data)

Samples(imageData) ==
    SamplesFrom(imageData.data, NumPixels(imageData),
                SampleStep(NumPixels(imageData)))

\* lines 493-498: hi - lo of one channel over a bucket, lo from 255, hi from 0
SetMin(S) == CHOOSE x \in S : \A y \in S : x <= y

SetMax(S) == CHOOSE x \in S : \A y \in S : x >= y

\* lo starts at 255 and takes every smaller value, hi starts at 0 and takes
\* every larger one
MinCh(b, ch) == SetMin({255} \cup {b[k][ch] : k \in 1 .. Len(b)})

MaxCh(b, ch) == SetMax({0} \cup {b[k][ch] : k \in 1 .. Len(b)})

ChannelRange(b, ch) == MaxCh(b, ch) - MinCh(b, ch)

\* lines 492-504 for one bucket: the three channels in order, a strictly
\* larger range replacing the best so far
ScanChannel(best, b, bi, ch) ==
    IF ChannelRange(b, ch) > best.bestRange
    THEN [bestRange |-> ChannelRange(b, ch), bestIdx |-> bi, bestChannel |-> ch]
    ELSE best

ScanBucket(best, b, bi) ==
    IF Len(b) < 2 THEN best
    ELSE ScanChannel(ScanChannel(ScanChannel(best, b, bi, 1), b, bi, 2), b, bi, 3)

\* lines 485-487: nothing found yet; bestIdx counts buckets from 1 and
\* bestChannel channels from 1
NoBest == [bestRange |-> -1, bestIdx |-> 1, bestChannel |-> 1]

\* line 499: a later candidate replaces an earlier one only with a strictly
\* larger range
LaterBest(earlier, later) ==
    IF later.bestRange > earlier.bestRange THEN later ELSE earlier

\* lines 489-505: the scan over the buckets lo..hi in order, as the best of
\* the left half against the best of the right half
RECURSIVE ScanBuckets(_, _, _)
ScanBuckets(buckets, lo, hi) ==
    IF lo > hi THEN NoBest
    ELSE IF lo = hi THEN ScanBucket(NoBest, buckets[lo], lo)
    ELSE LaterBest(ScanBuckets(buckets, lo, (lo + hi) \div 2),
                   ScanBuckets(buckets, ((lo + hi) \div 2) + 1, hi))

FindBest(buckets) == ScanBuckets(buckets, 1, Len(buckets))

\* bucket.sort((a, b) => a[ch] - b[ch]): ascending along ch, equal keys keeping
\* their order (Array.prototype.sort is stable)
\* the members lo..hi of b whose key is v, in their order
RECURSIVE WithKey(_, _, _, _, _)
WithKey(b, ch, v, lo, hi) ==
    IF lo > hi THEN <<>>
    ELSE IF lo = hi THEN (IF b[lo][ch] = v THEN <<b[lo]>> ELSE <<>>)
    ELSE WithKey(b, ch, v, lo, (lo + hi) \div 2)
             \o WithKey(b, ch, v, ((lo + hi) \div 2) + 1, hi)

\* the members with a key in lo..hi, by ascending key and, for one key, in
\* their order; keys is the set of the keys that b has
RECURSIVE SortedRun(_, _, _, _, _)
SortedRun(b, ch, keys, lo, hi) ==
    IF keys \cap (lo .. hi) = {} THEN <<>>
    ELSE IF lo = hi THEN WithKey(b, ch, lo, 1, Len(b))
    ELSE SortedRun(b, ch, keys, lo, (lo + hi) \div 2)
             \o SortedRun(b, ch, keys, ((lo + hi) \div 2) + 1, hi)

\* a channel of a pixel is a byte
SortBy(b, ch) == SortedRun(b, ch, {b[k][ch] : k \in 1 .. Len(b)}, 0, 255)

\* a cut that gives the odd member to the first half
SplitPointUp(n) == (n + 1) \div 2

\* where the sorted bucket is cut: bucket.length >> 1
SplitPoint(n) == n \div 2

\* a split whose second half starts one member late
SplitAtLosing(buckets, best) ==
    LET bucket == SortBy(buckets[best.bestIdx], best.bestChannel)
        mid == SplitPoint(Len(bucket))
    IN  (SubSeq(buckets, 1, best.bestIdx - 1)
            \o <<SubSeq(bucket, 1, mid), SubSeq(bucket, mid + 2, Len(bucket))>>)
            \o SubSeq(buckets, best.bestIdx + 1, Len(buckets))

\* lines 509-512: buckets.splice(bestIdx, 1, bucket.slice(0, mid), bucket.slice(mid))
SplitAt(buckets, best) ==
    LET bucket == SortBy(buckets[best.bestIdx], best.bestChannel)
        mid == SplitPoint(Len(bucket))
    IN  (SubSeq(buckets, 1, best.bestIdx - 1)
            \o <<SubSeq(bucket, 1, mid), SubSeq(bucket, mid + 1, Len(bucket))>>)
            \o SubSeq(buckets, best.bestIdx + 1, Len(buckets))

\* a loop that breaks only on a negative best range
CanSplitOnZeroRange(buckets, maxCol) ==
    Len(buckets) < maxCol /\ FindBest(buckets).bestRange >= 0

\* the loop goes on: fewer than maxColors buckets and a positive best range
CanSplit(buckets, maxCol) ==
    Len(buckets) < maxCol /\ FindBest(buckets).bestRange > 0

SplitStep(buckets) == SplitAt(buckets, FindBest(buckets))

\* Math.round(sum / n) of non-negative integers
RoundDiv(sum, n) == (2 * sum + n) \div (2 * n)

\* the sum of channel ch over the members lo..hi of a bucket
RECURSIVE SumCh(_, _, _, _)
SumCh(b, ch, lo, hi) ==
    IF lo > hi THEN 0
    ELSE IF lo = hi THEN b[lo][ch]
    ELSE SumCh(b, ch, lo, (lo + hi) \div 2) + SumCh(b, ch, ((lo + hi) \div 2) + 1, hi)

\* lines 516-522: the colour of one bucket
BucketColour(bucket) ==
    IF Len(bucket) = 0 THEN <<0, 0, 0>>
    ELSE <<RoundDiv(SumCh(bucket, 1, 1, Len(bucket)), Len(bucket)),
           RoundDiv(SumCh(bucket, 2, 1, Len(bucket)), Len(bucket)),
           RoundDiv(SumCh(bucket, 3, 1, Len(bucket)), Len(bucket))>>

Average(buckets) == [k \in 1 .. Len(buckets) |-> BucketColour(buckets[k])]

\* lines 475-479: no samples, maxColors black entries
BlackColours(maxCol) == [k \in 1 .. maxCol |-> <<0, 0, 0>>]

RECURSIVE SplitAll(_, _)
SplitAll(buckets, maxCol) ==
    IF CanSplit(buckets, maxCol) THEN SplitAll(SplitStep(buckets), maxCol)
    ELSE buckets

\* medianCut(samples, maxColors) as a whole
MedianCut(samples, maxCol) ==
    IF Len(samples) = 0 THEN BlackColours(maxCol)
    ELSE Average(SplitAll(<<samples>>, maxCol))

\* bestDist = Infinity: above every distance between two colours
InfinityDist == 3 * 255 * 255 + 1

\* a distance that leaves the blue channel out
SqDistRedGreen(r, g, b, c) ==
    (r - c[1]) * (r - c[1]) + (g - c[2]) * (g - c[2])

SqDist(r, g, b, c) ==
    (r - c[1]) * (r - c[1]) + (g - c[2]) * (g - c[2]) + (b - c[3]) * (b - c[3])

\* lines 526-527: nothing visited yet; bestIdx counts from 0
NoNearest == [bestDist |-> InfinityDist, bestIdx |-> 0, stopped |-> FALSE]

\* lines 529-537 for palette entry i (from 1) on its own
NearestVisit(r, g, b, palette, i) ==
    [bestDist |-> SqDist(r, g, b, palette[i]), bestIdx |-> i - 1,
     stopped |-> SqDist(r, g, b, palette[i]) = 0]

\* lines 533-536: nothing after the break, and a later entry replaces an
\* earlier one only with a strictly smaller distance
LaterNearest(earlier, later) ==
    IF earlier.stopped \/ ~(later.bestDist < earlier.bestDist) THEN earlier ELSE later

\* the entries lo..hi are visited in order: the result of the left half
\* against the result of the right half
RECURSIVE NearestScan(_, _, _, _, _, _)
NearestScan(r, g, b, palette, lo, hi) ==
    IF lo > hi THEN NoNearest
    ELSE IF lo = hi THEN LaterNearest(NoNearest, NearestVisit(r, g, b, palette, lo))
    ELSE LaterNearest(NearestScan(r, g, b, palette, lo, (lo + hi) \div 2),
                      NearestScan(r, g, b, palette, ((lo + hi) \div 2) + 1, hi))

\* a search that counts the palette's entries from 1
FindNearestOneBased(r, g, b, palette) ==
    NearestScan(r, g, b, palette, 1, Len(palette)).bestIdx + 1

FindNearest(r, g, b, palette) ==
    NearestScan(r, g, b, palette, 1, Len(palette)).bestIdx

\* lines 456-461: the flat Uint8Array of 256 * 3 bytes, zero where not set
PaletteEntries(paletteColors) == Min(Len(paletteColors), 256)

\* a palette that ends with its last cluster
BuildPaletteUnpadded(paletteColors) ==
    [k \in 1 .. PaletteEntries(paletteColors) * 3 |->
        paletteColors[((k - 1) \div 3) + 1][((k - 1) % 3) + 1] % 256]

BuildPalette(paletteColors) ==
    [k \in 1 .. 256 * 3 |->
        IF (k - 1) \div 3 < PaletteEntries(paletteColors)
        THEN paletteColors[((k - 1) \div 3) + 1][((k - 1) % 3) + 1] % 256
        ELSE 0]

\* lines 464-469: one index per pixel, stored in a Uint8Array
MapPixels(imageData, paletteColors) ==
    [k \in 1 .. NumPixels(imageData) |->
        FindNearest(ByteAt(imageData.data, (k - 1) * 4),
                    ByteAt(imageData.data, (k - 1) * 4 + 1),
                    ByteAt(imageData.data, (k - 1) * 4 + 2),
                    paletteColors) % 256]

\* quantizeFrame(imageData) as a whole
QuantizeFrame(imageData) ==
    LET paletteColors == MedianCut(Samples(imageData), maxColors)
    IN  [indexedPixels |-> MapPixels(imageData, paletteColors),
         palette |-> BuildPalette(paletteColors)]

----------------------------------------------------------------------------
(* encodeAnimatedGif(frames, width, height, delay)                         *)
(*                                                                         *)
(* A Uint8Array is a sequence of bytes, parts the sequence of them, and a  *)
(* Blob the record of its type and the bytes of its parts in order.        *)

\* s.charCodeAt(i) for the characters of the string literals written
CharCode(c) ==
    CASE c = "G" -> 71 [] c = "I" -> 73 [] c = "F" -> 70 [] c = "8" -> 56
      [] c = "9" -> 57 [] c = "a" -> 97 [] c = "N" -> 78 [] c = "E" -> 69
      [] c = "T" -> 84 [] c = "S" -> 83 [] c = "C" -> 67 [] c = "A" -> 65
      [] c = "P" -> 80 [] c = "2" -> 50 [] c = "." -> 46 [] c = "0" -> 48

\* new Uint8Array(arr): every element modulo 256
Uint8Array(arr) == [k \in 1 .. Len(arr) |-> arr[k] % 256]

\* writeString(s), s given as its characters
WriteString(chars) == Uint8Array([k \in 1 .. Len(chars) |-> CharCode(chars[k])])

\* uint16LE(val) = [val & 0xFF, (val >> 8) & 0xFF]
Uint16LE(val) == <<val % 256, (val \div 256) % 256>>

GifColorDepth == 8

gctFlag == 0

\* (gctFlag << 7) | ((colorDepth - 1) << 4) | 0
Packed == BitOr(BitOr(gctFlag * 128, (GifColorDepth - 1) * 16), 0)

\* 0x80 | (colorDepth - 1)
LctPacked == BitOr(128, GifColorDepth - 1)

Signature == WriteString(<<"G", "I", "F", "8", "9", "a">>)

ScreenDescriptor(width, height) ==
    Uint8Array((Uint16LE(width) \o Uint16LE(height)) \o <<Packed, 0, 0>>)

NetscapeParts ==
    <<Uint8Array(<<33, 255, 11>>),
      WriteString(<<"N", "E", "T", "S", "C", "A", "P", "E", "2", ".", "0">>),
      Uint8Array((<<3, 1>> \o Uint16LE(0)) \o <<0>>)>>

GraphicControl(delay) ==
    Uint8Array((<<33, 249, 4, 0>> \o Uint16LE(delay)) \o <<0, 0>>)

ImageDescriptor(width, height) ==
    Uint8Array((((<<44>> \o Uint16LE(0)) \o Uint16LE(0)) \o Uint16LE(width))
                   \o Uint16LE(height) \o <<LctPacked>>)

RECURSIVE ConcatAll(_)
ConcatAll(parts) ==
    IF Len(parts) = 0 THEN <<>>
    ELSE ConcatAll(SubSeq(parts, 1, Len(parts) - 1)) \o parts[Len(parts)]

\* new Blob(parts, { type: 'image/gif' })
Blob(parts) == [type |-> "image/gif", bytes |-> ConcatAll(parts)]

\* what the caller holds when the call threw: no value
NoBlob == [type |-> "none", bytes |-> <<>>]

\* lines 645-674: the header, the screen descriptor, the looping extension.
\* failAt is the frame (from 1) during whose processing the runtime throws,
\* as an allocation in quantizeFrame or lzwEncode may; 0 when it never does.
GifEnter(frames, width, height, delay, failAt) ==
    [frames |-> frames, width |-> width, height |-> height, delay |-> delay,
     failAt |-> failAt,
     parts |-> <<Signature, ScreenDescriptor(width, height)>> \o NetscapeParts,
     fi |-> 0,
     result |-> NoBlob,
     pc |-> "frames"]

\* the four parts one pass of the loop writes for frame (lines 678-705)
FrameParts(frame, width, height, delay) ==
    LET q == QuantizeFrame(frame)
    IN  <<GraphicControl(delay),
          ImageDescriptor(width, height),
          Uint8Array(q.palette),
          Uint8Array(LzwEncode(q.indexedPixels, GifColorDepth))>>

\* a loop that writes every frame with the palette of the first one
GifFrameStepOnePalette(g) ==
    [g EXCEPT !.parts = @ \o
                  <<GraphicControl(g.delay),
                    ImageDescriptor(g.width, g.height),
                    Uint8Array(QuantizeFrame(g.frames[1]).palette),
                    Uint8Array(LzwEncode(QuantizeFrame(g.frames[g.fi + 1]).indexedPixels,
                                         GifColorDepth))>>,
              !.fi = @ + 1]

\* a loop that writes the first frame every time
GifFrameStepFirst(g) ==
    [g EXCEPT !.parts = @ \o FrameParts(g.frames[1], g.width, g.height, g.delay),
              !.fi = @ + 1]

GifFrameStep(g) ==
    [g EXCEPT !.parts = @ \o FrameParts(g.frames[g.fi + 1], g.width, g.height, g.delay),
              !.fi = @ + 1]

\* a failure that hands out what was written so far
GifThrowStepPartial(g) == [g EXCEPT !.result = Blob(g.parts), !.pc = "thrown"]

\* an exception leaves the function: its parts are lost, nothing is returned
GifThrowStep(g) == [g EXCEPT !.parts = <<>>, !.result = NoBlob, !.pc = "thrown"]

\* a return without the trailer
GifNoTrailerStep(g) == [g EXCEPT !.result = Blob(g.parts), !.pc = "returned"]

\* lines 708-711: the trailer and the Blob
GifTrailerStep(g) ==
    [g EXCEPT !.parts = Append(@, Uint8Array(<<59>>)),
              !.result = Blob(Append(g.parts, Uint8Array(<<59>>))),
              !.pc = "returned"]

GifInLoop(g) == g.pc = "frames" /\ g.fi < Len(g.frames)

GifThrowsNow(g) == g.fi + 1 = g.failAt

GifStep(g) ==
    IF ~GifInLoop(g) THEN GifTrailerStep(g)
    ELSE IF GifThrowsNow(g) THEN GifThrowStep(g)
    ELSE GifFrameStep(g)

RECURSIVE GifRun(_)
GifRun(g) == IF g.pc \in {"returned", "thrown"} THEN g ELSE GifRun(GifStep(g))

\* encodeAnimatedGif as a whole
EncodeAnimatedGif(frames, width, height, delay, failAt) ==
    GifRun(GifEnter(frames, width, height, delay, failAt))

----------------------------------------------------------------------------
(* The reference GIF LZW decoder of the round-trip property: it reads the  *)
(* min-code-size byte, concatenates the sub-blocks, reads codes            *)
(* least-significant bit first, widens the codes when its next free code   *)
(* reaches 2^width (never beyond 12 bits), resets on a clear code and      *)
(* stops at the end code or when the data holds no further code.           *)

RECURSIVE Unblock(_, _)
Unblock(bytes, p) ==
    IF p > Len(bytes) \/ bytes[p] = 0 THEN <<>>
    ELSE SubSeq(bytes, p + 1, Min(p + bytes[p], Len(bytes)))
             \o Unblock(bytes, p + 1 + bytes[p])

BitAt(data, q) == (data[(q \div 8) + 1] \div Pow2(q % 8)) % 2

RECURSIVE ReadBits(_, _, _)
ReadBits(data, pos, n) ==
    IF n = 0 THEN 0 ELSE BitAt(data, pos) + 2 * ReadBits(data, pos + 1, n - 1)

DecTable(clearCode) == [c \in 0 .. clearCode - 1 |-> <<c>>]

DecEnter(bytes) ==
    [minCodeSize |-> bytes[1],
     data |-> Unblock(bytes, 2),
     pos |-> 0,
     width |-> bytes[1] + 1,
     table |-> DecTable(Pow2(bytes[1])),
     free |-> Pow2(bytes[1]) + 2,
     prev |-> Undefined,
     out |-> <<>>,
     sawEnd |-> FALSE,
     pc |-> "read"]

DecHasCode(d) == d.pos + d.width <= 8 * Len(d.data)

DecCode(d) == ReadBits(d.data, d.pos, d.width)

DecIsClear(d) == DecCode(d) = Pow2(d.minCodeSize)

DecIsEnd(d) == DecCode(d) = Pow2(d.minCodeSize) + 1

DecClearStep(d) ==
    [d EXCEPT !.pos = @ + d.width,
              !.width = d.minCodeSize + 1,
              !.table = DecTable(Pow2(d.minCodeSize)),
              !.free = Pow2(d.minCodeSize) + 2,
              !.prev = Undefined]

DecEndStep(d) == [d EXCEPT !.pos = @ + d.width, !.sawEnd = TRUE, !.pc = "done"]

\* a data code: output its string and add prev's string + the first symbol
DecDataStep(d) ==
    LET code == DecCode(d)
        known == code \in DOMAIN d.table
        entry == IF known THEN d.table[code]
                 ELSE Append(d.table[d.prev], d.table[d.prev][1])
        adds == d.prev # Undefined /\ d.free < 4096
        free1 == IF adds THEN d.free + 1 ELSE d.free
    IN  IF ~known /\ (d.prev = Undefined \/ code # d.free)
        THEN [d EXCEPT !.pc = "error"]
        ELSE [d EXCEPT
                 !.pos = @ + d.width,
                 !.out = @ \o entry,
                 !.table = IF adds
                           THEN (d.free :> Append(d.table[d.prev], entry[1])) @@ @
                           ELSE @,
                 !.free = free1,
                 !.width = IF adds /\ free1 = Pow2(@) /\ @ < 12 THEN @ + 1 ELSE @,
                 !.prev = code]

\* one step of the decoder
DecStep(d) ==
    IF ~DecHasCode(d) THEN [d EXCEPT !.pc = "done"]
    ELSE IF DecIsClear(d) THEN DecClearStep(d)
    ELSE IF DecIsEnd(d) THEN DecEndStep(d)
    ELSE DecDataStep(d)

RECURSIVE DecRun(_)
DecRun(d) == IF d.pc \in {"done", "error"} THEN d ELSE DecRun(DecStep(d))

\* the indices a bitstream decodes to
Decode(bytes) == DecRun(DecEnter(bytes)).out

----------------------------------------------------------------------------
(* Inputs of lzwEncode.                                                    *)

RECURSIVE SeqsUpTo(_, _)
SeqsUpTo(S, n) ==
    IF n = 0 THEN {<<>>}
    ELSE LET shorter == SeqsUpTo(S, n - 1)
         IN  shorter \cup {Append(s, x) : s \in {t \in shorter : Len(t) = n - 1}, x \in S}

\* every index sequence of length 0..MaxLen over 0..MaxIndex, for every depth
ShortInputs ==
    {[indexedPixels |-> s, colorDepth |-> cd] :
        cd \in 1 .. MaxDepth, s \in SeqsUpTo(0 .. MaxIndex, MaxLen)}

\* 8-bit indices in which no pair of neighbours repeats: every pass of the
\* loop adds a dictionary entry, so the dictionary fills and is reset
ResetLen == (maxCodeLimit - (EoiCode(8) + 1)) + 2 + TailLen

ResetPixels ==
    [k \in 1 .. ResetLen |->
        (((k - 1) % 256) * (2 * ((k - 1) \div 256) + 1)) % 256]

\* a constant run and a period-2 alternation
ConstPixels == [k \in 1 .. 10 * MaxLen |-> 5]

AltPixels == [k \in 1 .. 10 * MaxLen |-> 1 + (k % 2)]

LongInputs ==
    {[indexedPixels |-> s, colorDepth |-> 8] :
        s \in {ResetPixels, ConstPixels, AltPixels}}

LzwInputs ==
    {a \in ShortInputs :
        \A k \in 1 .. Len(a.indexedPixels) : a.indexedPixels[k] < Pow2(a.colorDepth)}
    \cup LongInputs

----------------------------------------------------------------------------
(* lzwEncode, one pass of its loop per step, followed by the decoder.      *)

LzwCalled == lzw.pc = "call"

LzwIdle == [pc |-> "idle"]

DecIdle == [pc |-> "idle"]

QuantIdle == [pc |-> "idle"]

GifIdle == [pc |-> "idle"]

ConvIdle == [pc |-> "idle"]

CtlIdle == [pc |-> "idle"]

PageIdle == [pc |-> "idle"]

LzwStart ==
    /\ lzw.pc = "call"
    /\ lzw' = LzwEnter(lzw.indexedPixels, lzw.colorDepth)
    /\ UNCHANGED exceptLzw

LzwExtend ==
    /\ InLoop(lzw)
    /\ HasCombined(lzw)
    /\ lzw' = LzwExtendStep(lzw)
    /\ UNCHANGED exceptLzw

LzwAdd ==
    /\ InLoop(lzw)
    /\ ~HasCombined(lzw)
    /\ lzw.nextCode < maxCodeLimit
    /\ lzw' = LzwAddStep(lzw)
    /\ UNCHANGED exceptLzw

LzwReset ==
    /\ InLoop(lzw)
    /\ ~HasCombined(lzw)
    /\ ~(lzw.nextCode < maxCodeLimit)
    /\ lzw' = LzwResetStep(lzw)
    /\ UNCHANGED exceptLzw

LzwFinish ==
    /\ lzw.pc = "loop"
    /\ ~InLoop(lzw)
    /\ lzw' = LzwFinishStep(lzw)
    /\ UNCHANGED exceptLzw

DecStart ==
    /\ lzw.pc = "done"
    /\ dec.pc = "idle"
    /\ dec' = DecEnter(lzw.output)
    /\ UNCHANGED exceptDec

DecClear ==
    /\ dec.pc = "read"
    /\ DecHasCode(dec)
    /\ DecIsClear(dec)
    /\ dec' = DecClearStep(dec)
    /\ UNCHANGED exceptDec

DecData ==
    /\ dec.pc = "read"
    /\ DecHasCode(dec)
    /\ ~DecIsClear(dec)
    /\ ~DecIsEnd(dec)
    /\ dec' = DecDataStep(dec)
    /\ UNCHANGED exceptDec

DecEnd ==
    /\ dec.pc = "read"
    /\ \/ DecHasCode(dec) /\ DecIsEnd(dec) /\ dec' = DecEndStep(dec)
       \/ ~DecHasCode(dec) /\ dec' = [dec EXCEPT !.pc = "done"]
    /\ UNCHANGED exceptDec

\* the passes of the loop on ResetPixels until the dictionary is full
FillPasses == maxCodeLimit - (EoiCode(8) + 1)

\* the call on ResetPixels two passes before its dictionary is full
NearlyFull == LzwAdvance(LzwEnter(ResetPixels, 8), FillPasses - 2)

\* a call about to start, or the call on ResetPixels where NearlyFull is
InitLzw ==
    /\ \/ \E a \in LzwInputs :
              lzw = [pc |-> "call", indexedPixels |-> a.indexedPixels,
                     colorDepth |-> a.colorDepth]
       \/ lzw = NearlyFull
    /\ dec = DecIdle
    /\ quant = QuantIdle
    /\ gif = GifIdle
    /\ conv = ConvIdle
    /\ ctl = CtlIdle
    /\ page = PageIdle

NextLzw ==
    \/ LzwStart
    \/ LzwExtend
    \/ LzwAdd
    \/ LzwReset
    \/ LzwFinish
    \/ DecStart
    \/ DecClear
    \/ DecData
    \/ DecEnd

SpecLzw == InitLzw /\ [][NextLzw]_vars

\* C1: decoding the bytes lzwEncode returns yields the indices it was given
RoundTrip ==
    dec.pc \in {"done", "error"} =>
        /\ dec.pc = "done"
        /\ dec.out = lzw.indexedPixels

RoundTripNonEmpty ==
    (dec.pc \in {"done", "error"} /\ Len(lzw.indexedPixels) > 0) =>
        /\ dec.pc = "done"
        /\ dec.sawEnd
        /\ dec.out = lzw.indexedPixels

\* the width the codes of a call start with
StartCodeSize(e) == MinCodeSize(e.colorDepth) + 1

LzwRunning == lzw.pc \in {"loop", "done"}

\* a step of the loop that adds the entry whose code is 2^width, below 12 bits
AddsFullCode ==
    /\ lzw'.nextCode = lzw.nextCode + 1
    /\ lzw.nextCode = Pow2(lzw.codeSize)
    /\ lzw.codeSize < 12

\* a step of the loop that resets the dictionary, its last code the clear code
ResetsDict ==
    /\ lzw'.resets = lzw.resets + 1
    /\ lzw'.codes[Len(lzw'.codes)] = <<ClearCode(lzw.colorDepth), lzw.codeSize>>

CodeWidthStep ==
    /\ (lzw.pc = "call" /\ lzw'.pc = "loop") => lzw'.codeSize = StartCodeSize(lzw')
    /\ (lzw.pc = "loop" /\ lzw' # lzw) =>
          \/ AddsFullCode /\ lzw'.codeSize = lzw.codeSize + 1
          \/ ResetsDict /\ lzw'.codeSize = StartCodeSize(lzw)
          \/ ~AddsFullCode /\ lzw'.resets = lzw.resets /\ lzw'.codeSize = lzw.codeSize

\* C13: the code width starts at max(2, colorDepth) + 1, stays between that
\* and 12, grows by exactly 1 right after the entry with code 2^width is
\* added, and returns to the start right after the clear code of a reset;
\* it changes in no other way
CodeWidth ==
    /\ [](LzwRunning => lzw.codeSize \in StartCodeSize(lzw) .. 12)
    /\ [][CodeWidthStep]_vars

\* codes of 12 bits were written, the dictionary was reset, and the width is
\* back at its start
CodeWidthWitness ==
    /\ LzwRunning
    /\ lzw.resets = 1
    /\ lzw.codeSize = StartCodeSize(lzw)
    /\ \E k \in 1 .. Len(lzw.codes) : lzw.codes[k][2] = 12

\* the pass of the loop in which the new string would get code 4096
NeedsCode4096 ==
    /\ InLoop(lzw)
    /\ ~HasCombined(lzw)
    /\ lzw.nextCode = maxCodeLimit

\* the dictionary holds every entry added since it was last reset, so it is
\* at its largest when it is full and when the call is over
DictAtLargest == lzw.nextCode = maxCodeLimit \/ lzw.pc = "done"

DictResetStep ==
    /\ (lzw.pc = "loop" /\ lzw' # lzw /\ NeedsCode4096) =>
          /\ lzw.codeSize = 12
          /\ lzw'.codes = lzw.codes \o <<<<lzw.dict[lzw.current], 12>>,
                                         <<ClearCode(lzw.colorDepth), 12>>>>
          /\ lzw'.dict = [k \in {<<j>> : j \in 0 .. ClearCode(lzw.colorDepth) - 1} |-> k[1]]
          /\ lzw'.nextCode = EoiCode(lzw.colorDepth) + 1
          /\ lzw'.codeSize = MinCodeSize(lzw.colorDepth) + 1
          /\ lzw'.current = <<lzw.indexedPixels[lzw.i + 1]>>
          /\ lzw'.i = lzw.i + 1
    /\ (lzw.pc = "loop" /\ lzw' # lzw /\ ~NeedsCode4096) =>
          /\ lzw'.resets = lzw.resets
          /\ lzw'.nextCode \in {lzw.nextCode, lzw.nextCode + 1}
          /\ lzw'.nextCode = lzw.nextCode + 1 =>
                /\ lzw.nextCode < maxCodeLimit
                /\ lzw'.dict[lzw.current \o <<lzw.indexedPixels[lzw.i + 1]>>] = lzw.nextCode

\* C14: no entry ever gets a code of 4096 or more; when the new string would
\* need code 4096 the encoder writes the prefix's code, then the clear code
\* at 12 bits, resets the dictionary to the entries 0..clearCode-1, the next
\* code to endCode + 1 and the width to minCodeSize + 1, and goes on with the
\* new symbol as the prefix
DictionaryBound ==
    /\ [](LzwRunning =>
             /\ lzw.nextCode <= maxCodeLimit
             /\ DictAtLargest => \A key \in DOMAIN lzw.dict : lzw.dict[key] < maxCodeLimit)
    /\ [][DictResetStep]_vars

\* the dictionary was reset and an entry has been added to it since
DictionaryBoundWitness ==
    /\ LzwRunning
    /\ lzw.resets = 1
    /\ lzw.nextCode = EoiCode(lzw.colorDepth) + 2
    /\ lzw.codeSize = MinCodeSize(lzw.colorDepth) + 1

\* how far past the pending prefix a longer match is looked for
LookAhead == 10 * MaxLen

\* the pending prefix is what the input holds from where the prefix began, it
\* is in the dictionary, and no longer stretch of the input from there is
LongestMatch(e) ==
    LET from == e.i - Len(e.current) + 1
    IN  /\ e.current = SubSeq(e.indexedPixels, from, e.i)
        /\ e.current \in DOMAIN e.dict
        /\ \A to \in e.i + 1 .. Min(Len(e.indexedPixels), e.i + LookAhead) :
              SubSeq(e.indexedPixels, from, to) \notin DOMAIN e.dict

MatchCode(e) == <<e.dict[e.current], e.codeSize>>

\* a step of the loop writes nothing, or the code of the longest match
WritesMatch ==
    \/ lzw'.codes = lzw.codes
    \/ /\ lzw'.pc = "loop"
       /\ LongestMatch(lzw)
       /\ lzw'.codes = Append(lzw.codes, MatchCode(lzw))

\* ... or the code of the longest match and then the clear code of a reset
WritesMatchAndClear ==
    /\ lzw'.pc = "loop"
    /\ lzw'.resets = lzw.resets + 1
    /\ LongestMatch(lzw)
    /\ lzw'.codes = lzw.codes \o <<MatchCode(lzw), <<ClearCode(lzw.colorDepth), lzw.codeSize>>>>

\* the code after the loop writes the code of the prefix pending at the end
\* of the input, then the end code
WritesLast ==
    /\ lzw'.pc = "done"
    /\ lzw.i = Len(lzw.indexedPixels)
    /\ LongestMatch(lzw)
    /\ lzw'.codes = lzw.codes \o <<MatchCode(lzw), <<EoiCode(lzw.colorDepth), lzw.codeSize>>>>

LzwStepsOn == lzw.pc = "loop" /\ lzw' # lzw /\ Len(lzw.indexedPixels) > 0

\* the first code is the clear code; once the call is over the last one is
\* the end code, which appears once
FirstAndLast ==
    (LzwRunning /\ Len(lzw.indexedPixels) > 0) =>
        /\ lzw.codes[1][1] = ClearCode(lzw.colorDepth)
        /\ lzw.pc = "done" =>
              /\ lzw.codes[Len(lzw.codes)][1] = EoiCode(lzw.colorDepth)
              /\ \A k \in 1 .. Len(lzw.codes) - 1 :
                    lzw.codes[k][1] # EoiCode(lzw.colorDepth)

\* C15 as stated: the first code is clearCode, the last is endCode, emitted
\* once and right after the code of the final pending prefix, and every code
\* between them is the code of the longest dictionary string matching the
\* input at that position
CodeStreamAllMatches ==
    /\ []FirstAndLast
    /\ [][LzwStepsOn => (WritesMatch \/ WritesLast)]_vars

\* C15: the first code is clearCode, the last is endCode, emitted once and
\* right after the code of the final pending prefix, and every code between
\* them is the code of the longest dictionary string matching the input at
\* that position or the clear code of a dictionary reset
CodeStreamOrdering ==
    /\ []FirstAndLast
    /\ [][LzwStepsOn => (WritesMatch \/ WritesMatchAndClear \/ WritesLast)]_vars

\* a finished call that wrote the code of a string of several indices
CodeStreamOrderingWitness ==
    /\ lzw.pc = "done"
    /\ Len(lzw.indexedPixels) >= 3
    /\ \E k \in 1 .. Len(lzw.codes) : lzw.codes[k][1] > EoiCode(lzw.colorDepth)

\* the length bytes of the sub-blocks from position p up to the terminator,
\* ending in -1 when a zero byte comes before the last byte or none comes
RECURSIVE BlockSizes(_, _)
BlockSizes(bytes, p) ==
    IF p > Len(bytes) THEN <<-1>>
    ELSE IF bytes[p] = 0 THEN (IF p = Len(bytes) THEN <<>> ELSE <<-1>>)
    ELSE <<bytes[p]>> \o BlockSizes(bytes, p + 1 + bytes[p])

\* the bits of the codes lo..hi together
RECURSIVE SumSizes(_, _, _)
SumSizes(codes, lo, hi) ==
    IF lo > hi THEN 0
    ELSE IF lo = hi THEN codes[lo][2]
    ELSE SumSizes(codes, lo, (lo + hi) \div 2) + SumSizes(codes, ((lo + hi) \div 2) + 1, hi)

\* the bit at which each of the codes lo..hi starts, the first of them at base
RECURSIVE Offsets(_, _, _, _)
Offsets(codes, lo, hi, base) ==
    IF lo > hi THEN <<>>
    ELSE IF lo = hi THEN <<base>>
    ELSE Offsets(codes, lo, (lo + hi) \div 2, base)
             \o Offsets(codes, ((lo + hi) \div 2) + 1, hi,
                        base + SumSizes(codes, lo, (lo + hi) \div 2))

\* one byte of minCodeSize, sub-blocks of 1..255 bytes, all but the last of
\* 255, one zero byte at the end
Framed(e) ==
    LET sizes == BlockSizes(e.output, 2)
    IN  /\ e.output[1] = MinCodeSize(e.colorDepth)
        /\ \A k \in 1 .. Len(sizes) : sizes[k] \in 1 .. 255
        /\ \A k \in 1 .. Len(sizes) - 1 : sizes[k] = 255
        /\ e.output[Len(e.output)] = 0

\* the data bytes hold the codes written, one after the other from the least
\* significant bit of the first byte on, and zeros after the last code
CodesPacked(e) ==
    LET data == Unblock(e.output, 2)
        n == Len(e.codes)
        total == SumSizes(e.codes, 1, n)
        at == Offsets(e.codes, 1, n, 0)
    IN  /\ Len(data) = (total + 7) \div 8
        /\ \A k \in 1 .. Len(data) : data[k] \in 0 .. 255
        /\ \A k \in 1 .. n : ReadBits(data, at[k], e.codes[k][2]) = ToInt32(e.codes[k][1])
        /\ \A q \in total .. 8 * Len(data) - 1 : BitAt(data, q) = 0

\* C16: the output is the minCodeSize byte, then sub-blocks of a length byte
\* L in 1..255 and L data bytes, every one but possibly the last with
\* L = 255, then a single zero byte; the data bytes are the codes packed
\* least significant bit first, the last byte padded with zeros
SubBlockFraming ==
    [][(lzw.pc = "loop" /\ lzw'.pc = "done") => (Framed(lzw') /\ CodesPacked(lzw'))]_vars

\* an output of a full sub-block followed by a shorter one
SubBlockFramingWitness ==
    /\ lzw.pc = "done"
    /\ dec.pc = "idle"
    /\ Len(BlockSizes(lzw.output, 2)) >= 2
    /\ BlockSizes(lzw.output, 2)[1] = 255
    /\ BlockSizes(lzw.output, 2)[Len(BlockSizes(lzw.output, 2))] \in 1 .. 254

\* a code written that is an integer and has no bit beyond its width
Fits(written) ==
    /\ written[1] # Undefined
    /\ written[1] >= 0
    /\ written[1] < Pow2(written[2])

\* C23: every code passed to writeBits is a defined integer below 2^width,
\* the width being the one in force when it is written
CodesFit ==
    LzwRunning => \A k \in 1 .. Len(lzw.codes) : Fits(lzw.codes[k])

\* the same for the codes that the last step wrote, on a non-empty input
CodesFitNonEmpty ==
    (LzwRunning /\ Len(lzw.indexedPixels) > 0) =>
        \A k \in Len(lzw.codes) - 1 .. Len(lzw.codes) : k >= 1 => Fits(lzw.codes[k])

----------------------------------------------------------------------------
(* Inputs of quantizeFrame.                                                *)

\* frames of 0..MaxPixels pixels are tried with every colouring
MaxPixels == 3

ColourSet == {<<0, 0, 0>>, <<255, 0, 0>>, <<10, 20, 30>>, <<10, 20, 31>>}

AlphaSet == {0, 255}

RgbaSet == {c \o <<a>> : c \in ColourSet, a \in AlphaSet}

\* the width x height shapes of n pixels
Shapes(n) ==
    IF n = 0 THEN {<<0, 0>>}
    ELSE {<<w, n \div w>> : w \in {v \in 1 .. n : n % v = 0}}

ImageDataOf(shape, rgbas) ==
    [width |-> shape[1], height |-> shape[2], data |-> rgbas]

SmallFrames ==
    UNION {{ImageDataOf(sh, px) : sh \in Shapes(Len(px))} :
              px \in SeqsUpTo(RgbaSet, MaxPixels)}

\* a one-row frame of more than maxColors distinct colours, some of them close
BigWidth == maxColors + MaxPixels + 1

BigFrame ==
    ImageDataOf(<<BigWidth, 1>>,
        [j \in 1 .. BigWidth |-> <<(j * 37) % 256, (j * j) % 256, j % 7, 255>>])

\* a one-row frame of twice the budget of samples, so that sampleStep is 2:
\* the sampled pixels have two colours, the pixels between them other ones
WideWidth == 2 * sampleBudget

WideFrame ==
    ImageDataOf(<<WideWidth, 1>>,
        [j \in 1 .. WideWidth |->
            IF j % 4 = 1 THEN <<10, 20, 30, 255>>
            ELSE IF j % 4 = 3 THEN <<200, 20, 30, 255>>
            ELSE IF j % 4 = 2 THEN <<110, 20, 30, 0>>
            ELSE <<105, 20, 30, 255>>])

QuantInputs == (SmallFrames \cup {BigFrame}) \cup {WideFrame}

----------------------------------------------------------------------------
(* quantizeFrame, one pass of medianCut's loop per step.                   *)

\* lines 441-453 and 474-481: the samples, and medianCut's first bucket
QuantStart ==
    /\ quant.pc = "call"
    /\ LET samples == Samples(quant.imageData)
       IN  quant' =
             IF Len(samples) = 0
             THEN [pc |-> "palette", imageData |-> quant.imageData,
                   samples |-> samples, buckets |-> <<>>, splits |-> 0,
                   paletteColors |-> BlackColours(maxColors)]
             ELSE [pc |-> "cut", imageData |-> quant.imageData,
                   samples |-> samples, buckets |-> <<samples>>, splits |-> 0]
    /\ UNCHANGED exceptQuant

\* lines 483-513: one pass that splits a bucket
McSplit ==
    /\ quant.pc = "cut"
    /\ CanSplit(quant.buckets, maxColors)
    /\ quant' = [quant EXCEPT !.buckets = SplitStep(@), !.splits = @ + 1]
    /\ UNCHANGED exceptQuant

\* the loop ends; lines 516-522
McAverage ==
    /\ quant.pc = "cut"
    /\ ~CanSplit(quant.buckets, maxColors)
    /\ quant' = [pc |-> "palette", imageData |-> quant.imageData,
                 samples |-> quant.samples, buckets |-> quant.buckets,
                 splits |-> quant.splits,
                 paletteColors |-> Average(quant.buckets)]
    /\ UNCHANGED exceptQuant

\* lines 455-471: the flat palette and the index of every pixel
QuantFinish ==
    /\ quant.pc = "palette"
    /\ quant' = [pc |-> "done", imageData |-> quant.imageData,
                 samples |-> quant.samples, buckets |-> quant.buckets,
                 splits |-> quant.splits,
                 paletteColors |-> quant.paletteColors,
                 palette |-> BuildPalette(quant.paletteColors),
                 indexedPixels |-> MapPixels(quant.imageData, quant.paletteColors)]
    /\ UNCHANGED exceptQuant

InitQuant ==
    /\ \E f \in QuantInputs : quant = [pc |-> "call", imageData |-> f]
    /\ lzw = LzwIdle
    /\ dec = DecIdle
    /\ gif = GifIdle
    /\ conv = ConvIdle
    /\ ctl = CtlIdle
    /\ page = PageIdle

NextQuant ==
    \/ QuantStart
    \/ McSplit
    \/ McAverage
    \/ QuantFinish

SpecQuant == InitQuant /\ [][NextQuant]_vars

\* the RGB colour of pixel k (from 1) of an ImageData
PixelRgb(imageData, k) ==
    <<ByteAt(imageData.data, 4 * k - 4), ByteAt(imageData.data, 4 * k - 3),
      ByteAt(imageData.data, 4 * k - 2)>>

\* entry i (from 0) of a flat palette
PaletteRgb(palette, i) == <<palette[3 * i + 1], palette[3 * i + 2], palette[3 * i + 3]>>

QuantDone == quant.pc = "done"

\* C3: the palette has exactly 256 entries (768 bytes); entries 0..k-1 are
\* medianCut's k colours in bucket order, every later entry is black
PaletteSizeInvariant ==
    QuantDone =>
        /\ Len(quant.palette) = 768
        /\ Len(quant.paletteColors) \in 1 .. 256
        /\ \A i \in 0 .. 255 :
              PaletteRgb(quant.palette, i) =
                  IF i < Len(quant.paletteColors) THEN quant.paletteColors[i + 1]
                  ELSE <<0, 0, 0>>
        /\ Len(quant.samples) > 0 =>
              /\ Len(quant.paletteColors) = Len(quant.buckets)
              /\ \A i \in 1 .. Len(quant.buckets) :
                    quant.paletteColors[i] = BucketColour(quant.buckets[i])

\* a frame of several colours done with fewer than 256 clusters, padded
PaletteSizeWitness ==
    /\ QuantDone
    /\ Len(quant.paletteColors) \in 2 .. 255
    /\ PaletteRgb(quant.palette, 1) # <<0, 0, 0>>
    /\ PaletteRgb(quant.palette, 255) = <<0, 0, 0>>

\* C4: every index is in 0..255 and below the number of clusters, and there
\* is one index per pixel
IndexValidity ==
    QuantDone =>
        /\ Len(quant.indexedPixels) = quant.imageData.width * quant.imageData.height
        /\ \A k \in 1 .. Len(quant.indexedPixels) :
              /\ quant.indexedPixels[k] \in 0 .. 255
              /\ quant.indexedPixels[k] < Len(quant.paletteColors)

\* a frame whose last pixel maps to the last of several clusters
IndexValidityWitness ==
    /\ QuantDone
    /\ Len(quant.indexedPixels) >= 2
    /\ Len(quant.paletteColors) >= 2
    /\ \E k \in 1 .. Len(quant.indexedPixels) :
          quant.indexedPixels[k] = Len(quant.paletteColors) - 1

Monochrome(imageData) ==
    /\ NumPixels(imageData) >= 1
    /\ \A k \in 1 .. NumPixels(imageData) : PixelRgb(imageData, k) = PixelRgb(imageData, 1)

\* C5: a frame of one colour c (any alpha) gets palette entry 0 = c and an
\* index buffer of zeros
MonochromeInput ==
    (QuantDone /\ Monochrome(quant.imageData)) =>
        /\ PaletteRgb(quant.palette, 0) = PixelRgb(quant.imageData, 1)
        /\ \A k \in 1 .. Len(quant.indexedPixels) : quant.indexedPixels[k] = 0

\* a frame of several pixels of one non-black colour and differing alpha
MonochromeWitness ==
    /\ QuantDone
    /\ Monochrome(quant.imageData)
    /\ NumPixels(quant.imageData) >= 2
    /\ PixelRgb(quant.imageData, 1) # <<0, 0, 0>>
    /\ ByteAt(quant.imageData.data, 3) # ByteAt(quant.imageData.data, 7)

\* the squared Euclidean distance between two RGB colours
Euclid2(c, d) ==
    (c[1] - d[1]) * (c[1] - d[1]) + (c[2] - d[2]) * (c[2] - d[2])
        + (c[3] - d[3]) * (c[3] - d[3])

\* i (from 0) is the lowest index of a palette entry at the least squared
\* distance from colour c
LowestNearest(c, palette, i) ==
    /\ i \in 0 .. Len(palette) - 1
    /\ \A j \in 1 .. Len(palette) : Euclid2(c, palette[i + 1]) <= Euclid2(c, palette[j])
    /\ \A j \in 1 .. i : Euclid2(c, palette[i + 1]) < Euclid2(c, palette[j])

\* pixel k (from 1) is one of those the sampling loop reads
Sampled(imageData, k) == (k - 1) % SampleStep(NumPixels(imageData)) = 0

\* C17: every pixel of the frame, sampled or not, gets the lowest index whose
\* squared RGB distance to the pixel is the least over the whole palette
\* (the stop at distance 0 makes no difference to that)
NearestColourMapping ==
    QuantDone =>
        /\ Len(quant.paletteColors) >= 1
        /\ Len(quant.indexedPixels) = NumPixels(quant.imageData)
        /\ \A k \in 1 .. NumPixels(quant.imageData) :
              LowestNearest(PixelRgb(quant.imageData, k), quant.paletteColors,
                            quant.indexedPixels[k])

\* a frame with pixels that were not sampled: one of them, of a colour that
\* is in no sample, is as far from entry 0 as from entry 1 and gets 0, and
\* another gets 1
NearestColourWitness ==
    /\ QuantDone
    /\ Len(quant.paletteColors) >= 2
    /\ \E k \in 1 .. NumPixels(quant.imageData) :
          /\ ~Sampled(quant.imageData, k)
          /\ \A n \in 1 .. Len(quant.samples) :
                quant.samples[n] # PixelRgb(quant.imageData, k)
          /\ Euclid2(PixelRgb(quant.imageData, k), quant.paletteColors[1])
               = Euclid2(PixelRgb(quant.imageData, k), quant.paletteColors[2])
          /\ quant.indexedPixels[k] = 0
    /\ \E k \in 1 .. NumPixels(quant.imageData) :
          ~Sampled(quant.imageData, k) /\ quant.indexedPixels[k] = 1

\* max - min of channel ch over the members of a bucket
ValueRange(b, ch) ==
    SetMax({b[k][ch] : k \in 1 .. Len(b)}) - SetMin({b[k][ch] : k \in 1 .. Len(b)})

\* s and t have the same members, each as many times
SameMembers(s, t) ==
    /\ Len(s) = Len(t)
    /\ \A x \in {s[k] : k \in 1 .. Len(s)} :
          Cardinality({k \in 1 .. Len(s) : s[k] = x})
              = Cardinality({k \in 1 .. Len(t) : t[k] = x})

Ascending(s, ch) == \A k \in 1 .. Len(s) - 1 : s[k][ch] <= s[k + 1][ch]

\* bucket i and channel ch have the largest range among the buckets of at
\* least 2 members, and no pair before them in bucket order, then channel
\* order, has a range as large
LargestRangeFirst(buckets, i, ch) ==
    /\ Len(buckets[i]) >= 2
    /\ \A i2 \in 1 .. Len(buckets) : \A ch2 \in 1 .. 3 :
          Len(buckets[i2]) >= 2 =>
              /\ ValueRange(buckets[i2], ch2) <= ValueRange(buckets[i], ch)
              /\ (i2 < i \/ (i2 = i /\ ch2 < ch)) =>
                    ValueRange(buckets[i2], ch2) < ValueRange(buckets[i], ch)

\* after is before with bucket i replaced, at its place, by the first
\* floor(n/2) and the other members of bucket i sorted along ch
SplitInPlace(before, after, i, ch) ==
    LET n == Len(before[i])
        sorted == after[i] \o after[i + 1]
    IN  /\ Len(after) = Len(before) + 1
        /\ \A k \in 1 .. i - 1 : after[k] = before[k]
        /\ \A k \in i + 1 .. Len(before) : after[k + 1] = before[k]
        /\ Len(after[i]) = n \div 2
        /\ Len(after[i + 1]) = n - (n \div 2)
        /\ Ascending(sorted, ch)
        /\ SameMembers(sorted, before[i])

\* the first bucket that a pass has changed
FirstChanged(before, after) ==
    CHOOSE i \in 1 .. Len(before) :
        after[i] # before[i] /\ \A k \in 1 .. i - 1 : after[k] = before[k]

\* v is Math.round(sum / n)
RoundedMean(v, sum, n) == 2 * n * v <= 2 * sum + n /\ 2 * sum + n < 2 * n * (v + 1)

MeanColour(c, bucket) ==
    \A ch \in 1 .. 3 : RoundedMean(c[ch], SumCh(bucket, ch, 1, Len(bucket)), Len(bucket))

SplitChoiceStep ==
    (quant.pc = "cut" /\ quant'.pc = "cut") =>
        \E ch \in 1 .. 3 :
            /\ LargestRangeFirst(quant.buckets, FirstChanged(quant.buckets, quant'.buckets), ch)
            /\ SplitInPlace(quant.buckets, quant'.buckets,
                            FirstChanged(quant.buckets, quant'.buckets), ch)

FinalColourStep ==
    (quant.pc = "cut" /\ quant'.pc = "palette") =>
        /\ Len(quant'.paletteColors) = Len(quant.buckets)
        /\ \A k \in 1 .. Len(quant.buckets) :
              MeanColour(quant'.paletteColors[k], quant.buckets[k])

\* C18: every split acts on the bucket and channel of the largest range among
\* the buckets of at least 2 members (the first found on ties); the bucket is
\* sorted along the channel and replaced in place by its first floor(n/2)
\* members and the others; a final bucket's colour is the rounded mean of its
\* members in each channel
SplitChoice == [][SplitChoiceStep /\ FinalColourStep]_vars

\* 256 buckets after 255 splits, one of them of differing members whose
\* colour is their mean and none of them
SplitChoiceWitness ==
    /\ QuantDone
    /\ quant.splits = 255
    /\ Len(quant.buckets) = 256
    /\ \E k \in 1 .. Len(quant.buckets) :
          /\ Len(quant.buckets[k]) >= 2
          /\ quant.buckets[k][1] # quant.buckets[k][2]
          /\ \A n \in 1 .. Len(quant.buckets[k]) :
                quant.paletteColors[k] # quant.buckets[k][n]

\* a bucket of at least 2 members with a non-zero range in some channel
Splittable(b) == Len(b) >= 2 /\ \E ch \in 1 .. 3 : ValueRange(b, ch) > 0

\* a pass that splits: the bucket it changes is one that can be split, and
\* there were fewer than 256 buckets
SplitsSplittableStep ==
    (quant.pc = "cut" /\ quant'.pc = "cut") =>
        /\ Len(quant.buckets) < 256
        /\ Splittable(quant.buckets[FirstChanged(quant.buckets, quant'.buckets)])
        /\ Len(quant'.buckets) = Len(quant.buckets) + 1

\* the loop ends: with 256 buckets, or with fewer and none that can be split
StopsStep ==
    (quant.pc = "cut" /\ quant'.pc = "palette") =>
        /\ Len(quant.buckets) \in 1 .. 256
        /\ Len(quant.buckets) < 256 =>
              \A k \in 1 .. Len(quant.buckets) : ~Splittable(quant.buckets[k])

\* C19: medianCut ends, after at most 255 passes of which each adds one
\* bucket, and returns 1..256 colours; it stops before 256 exactly when no
\* bucket of at least 2 members has a non-zero range, and a bucket of size 1
\* or of range 0 in all channels is never split
MedianCutTermination ==
    /\ [](quant.pc = "cut" =>
            /\ Len(quant.buckets) = quant.splits + 1
            /\ Len(quant.buckets) \in 1 .. 256)
    /\ [](quant.pc \in {"palette", "done"} => Len(quant.paletteColors) \in 1 .. 256)
    /\ [][SplitsSplittableStep /\ StopsStep]_vars

\* three samples done with two buckets, one of them of two equal members
MedianCutTerminationWitness ==
    /\ QuantDone
    /\ Len(quant.samples) = 3
    /\ quant.splits = 1
    /\ Len(quant.paletteColors) = 2
    /\ \E k \in 1 .. Len(quant.buckets) : Len(quant.buckets[k]) = 2

\* how many times x is a member of s
CountIn(s, x) == Cardinality({k \in 1 .. Len(s) : s[k] = x})

\* the members of buckets lo..hi, one bucket after the other
RECURSIVE Members(_, _, _)
Members(buckets, lo, hi) ==
    IF lo > hi THEN <<>>
    ELSE IF lo = hi THEN buckets[lo]
    ELSE Members(buckets, lo, (lo + hi) \div 2)
             \o Members(buckets, (lo + hi) \div 2 + 1, hi)

\* s and t hold the same values, each as many times
SameCounts(s, t) ==
    /\ Len(s) = Len(t)
    /\ \A x \in {s[k] : k \in 1 .. Len(s)} : CountIn(s, x) = CountIn(t, x)

\* the buckets hold the samples, each as many times as the list does, and
\* nothing else, and no bucket is empty
Partition(buckets, samples) ==
    /\ \A k \in 1 .. Len(buckets) : Len(buckets[k]) > 0
    /\ SameCounts(samples, Members(buckets, 1, Len(buckets)))

\* every colour is the mean of its bucket and lies between the least and the
\* largest value of the samples, channel by channel: some sample is not
\* above it and some sample is not below it
MeansOfSamples(colours, buckets, samples) ==
    /\ Len(colours) = Len(buckets)
    /\ \A i \in 1 .. Len(colours) :
           /\ Len(buckets[i]) > 0
           /\ MeanColour(colours[i], buckets[i])
           /\ \A ch \in 1 .. 3 :
                  /\ \E k \in 1 .. Len(samples) : samples[k][ch] <= colours[i][ch]
                  /\ \E k \in 1 .. Len(samples) : samples[k][ch] >= colours[i][ch]

PartitionKept ==
    /\ quant.pc \in {"cut", "palette", "done"} => Partition(quant.buckets, quant.samples)
    /\ quant.pc \in {"palette", "done"} =>
           MeansOfSamples(quant.paletteColors, quant.buckets, quant.samples)

\* C30: after every split the buckets are a partition of the sample list
\* with no empty bucket, so every colour returned is the mean of at least one
\* sample and lies between the least and the largest sample in each channel
PartitionInvariant == PartitionKept

\* C30, for a sample list that is not empty: with no sample medianCut
\* returns maxColors times black, the mean of nothing
PartitionInvariantNonEmpty ==
    (quant.pc \in {"cut", "palette", "done"} /\ Len(quant.samples) > 0) => PartitionKept

\* 256 buckets cut from 260 samples, one of them with two members that differ
PartitionInvariantWitness ==
    /\ QuantDone
    /\ Len(quant.samples) = BigWidth
    /\ Len(quant.buckets) = maxColors
    /\ \E i \in 1 .. Len(quant.buckets) :
           /\ Len(quant.buckets[i]) = 2
           /\ quant.buckets[i][1] # quant.buckets[i][2]
           /\ quant.paletteColors[i] \notin {quant.buckets[i][1], quant.buckets[i][2]}

----------------------------------------------------------------------------
(* The sampling loop of quantizeFrame on its own, for frames of any size:  *)
(* only the number of pixels matters to the number of samples.             *)

\* frames of up to MaxBudgets times the budget of samples are tried
MaxBudgets == 4

\* the numbers of pixels at, just below and just above every quarter of the
\* budget
PixelCounts ==
    {n \in {(k * sampleBudget) \div 4 + d : k \in 0 .. 4 * MaxBudgets, d \in {-1, 0, 1}} :
        n >= 0}

\* line 445
SampleStepChosen ==
    /\ quant.pc = "sizes"
    /\ quant' = [pc |-> "step", numPixels |-> quant.numPixels,
                 sampleStep |-> SampleStep(quant.numPixels)]
    /\ UNCHANGED exceptQuant

\* lines 446-450: the loop has pushed its samples
SamplesDrawn ==
    /\ quant.pc = "step"
    /\ quant' = [pc |-> "sampled", numPixels |-> quant.numPixels,
                 sampleStep |-> quant.sampleStep,
                 count |-> SampleCount(quant.numPixels, quant.sampleStep)]
    /\ UNCHANGED exceptQuant

InitSampling ==
    /\ \E n \in PixelCounts : quant = [pc |-> "sizes", numPixels |-> n]
    /\ lzw = LzwIdle
    /\ dec = DecIdle
    /\ gif = GifIdle
    /\ conv = ConvIdle
    /\ ctl = CtlIdle
    /\ page = PageIdle

NextSampling ==
    \/ SampleStepChosen
    \/ SamplesDrawn

SpecSampling == InitSampling /\ [][NextSampling]_vars

\* C22: the number of samples stays within the budget of 10000 whatever the
\* number of pixels
SampleBudget ==
    quant.pc = "sampled" => quant.count <= sampleBudget

\* what does hold: fewer than twice the budget
SampleBudgetTwice ==
    quant.pc = "sampled" => quant.count < 2 * sampleBudget

----------------------------------------------------------------------------
(* Inputs of encodeAnimatedGif.                                            *)

\* frame lists of 0..MaxFrames frames are tried
MaxFrames == 3

GifColours == {<<255, 0, 0>>, <<0, 0, 255>>}

GifPixels == {c \o <<255>> : c \in GifColours}

\* frames of one pixel, and of two pixels (red, then blue) as a row and as a
\* column
GifFrames ==
    UNION {{ImageDataOf(sh, px) : sh \in Shapes(Len(px))} :
              px \in {q \in SeqsUpTo(GifPixels, 2) :
                         Len(q) = 1 \/ (Len(q) = 2 /\ q[1][1] = 255 /\ q[2][1] = 0)}}

\* the width and height the caller declares, and the delay
DeclaredSizes == {<<2, 1>>, <<258, 3>>}

Delays == {10, 300}

GifInputs ==
    {[frames |-> fs, width |-> sz[1], height |-> sz[2], delay |-> d] :
        fs \in SeqsUpTo(GifFrames, MaxFrames), sz \in DeclaredSizes, d \in Delays}

----------------------------------------------------------------------------
(* encodeAnimatedGif, one frame per step.                                  *)

GifStart ==
    /\ gif.pc = "call"
    /\ gif' = GifEnter(gif.frames, gif.width, gif.height, gif.delay, gif.failAt)
    /\ UNCHANGED exceptGif

GifFrame ==
    /\ GifInLoop(gif)
    /\ ~GifThrowsNow(gif)
    /\ gif' = GifFrameStep(gif)
    /\ UNCHANGED exceptGif

GifFrameThrows ==
    /\ GifInLoop(gif)
    /\ GifThrowsNow(gif)
    /\ gif' = GifThrowStep(gif)
    /\ UNCHANGED exceptGif

GifTrailer ==
    /\ gif.pc = "frames"
    /\ ~GifInLoop(gif)
    /\ gif' = GifTrailerStep(gif)
    /\ UNCHANGED exceptGif

GifCall(frames, width, height, delay, failAt) ==
    [pc |-> "call", frames |-> frames, width |-> width, height |-> height,
     delay |-> delay, failAt |-> failAt]

InitGif ==
    /\ \E a \in GifInputs : \E failAt \in 0 .. Len(a.frames) :
           gif = GifCall(a.frames, a.width, a.height, a.delay, failAt)
    /\ lzw = LzwIdle
    /\ dec = DecIdle
    /\ quant = QuantIdle
    /\ conv = ConvIdle
    /\ ctl = CtlIdle
    /\ page = PageIdle

NextGif ==
    \/ GifStart
    \/ GifFrame
    \/ GifFrameThrows
    \/ GifTrailer

SpecGif == InitGif /\ [][NextGif]_vars

----------------------------------------------------------------------------
(* Reading a container back: the signature, the screen descriptor, one     *)
(* application extension, then groups of graphic control extension, image  *)
(* descriptor, 768-byte colour table and sub-blocked image data, then the  *)
(* trailer.                                                                *)

HeaderLen == 6 + 7 + 19

\* the position of the zero byte that ends the sub-blocks starting at p
RECURSIVE BlocksEnd(_, _)
BlocksEnd(bytes, p) ==
    IF p > Len(bytes) THEN 0
    ELSE IF bytes[p] = 0 THEN p
    ELSE BlocksEnd(bytes, p + 1 + bytes[p])

BadGroup == [ok |-> FALSE, control |-> <<>>, descriptor |-> <<>>,
             palette |-> <<>>, data |-> <<>>]

\* the groups from position p on, ending in BadGroup when the bytes from
\* there on are neither a group nor the trailer
RECURSIVE ReadGroups(_, _)
ReadGroups(bytes, p) ==
    IF p = Len(bytes) /\ bytes[p] = 59 THEN <<>>
    ELSE IF p + 8 + 10 + 768 + 1 > Len(bytes) \/ bytes[p] # 33 \/ bytes[p + 1] # 249
         THEN <<BadGroup>>
    ELSE LET dataAt == p + 8 + 10 + 768
             endAt == BlocksEnd(bytes, dataAt + 1)
         IN  IF endAt = 0 THEN <<BadGroup>>
             ELSE <<[ok |-> TRUE, control |-> SubSeq(bytes, p, p + 7),
                     descriptor |-> SubSeq(bytes, p + 8, p + 17),
                     palette |-> SubSeq(bytes, p + 18, dataAt - 1),
                     data |-> SubSeq(bytes, dataAt, endAt)]>>
                      \o ReadGroups(bytes, endAt + 1)

Groups(bytes) ==
    IF Len(bytes) <= HeaderLen THEN <<BadGroup>> ELSE ReadGroups(bytes, HeaderLen + 1)

WellFormed(bytes) == \A k \in 1 .. Len(Groups(bytes)) : Groups(bytes)[k].ok

\* the header the claims spell out, byte by byte
ExpectedHeader(width, height) ==
    <<71, 73, 70, 56, 57, 97,
      width % 256, (width \div 256) % 256, height % 256, (height \div 256) % 256,
      112, 0, 0,
      33, 255, 11, 78, 69, 84, 83, 67, 65, 80, 69, 50, 46, 48, 3, 1, 0, 0, 0>>

GifReturned == gif.pc = "returned"

\* C2: the bytes are the signature, the screen descriptor (0x70), one
\* NETSCAPE2.0 extension with loop count 0 before any frame, exactly N groups
\* each with one image descriptor (0x2C), and the trailer 0x3B
ContainerStructure ==
    GifReturned =>
        LET bytes == gif.result.bytes
        IN  /\ SubSeq(bytes, 1, HeaderLen) = ExpectedHeader(gif.width, gif.height)
            /\ WellFormed(bytes)
            /\ Len(Groups(bytes)) = Len(gif.frames)
            /\ \A k \in 1 .. Len(Groups(bytes)) : Groups(bytes)[k].descriptor[1] = 44
            /\ bytes[Len(bytes)] = 59

\* a container of two frames whose declared width needs both bytes
ContainerStructureWitness ==
    /\ GifReturned
    /\ Len(gif.frames) = 2
    /\ gif.width > 255
    /\ WellFormed(gif.result.bytes)

\* the colours a group shows: its decoded indices looked up in its palette
Rendered(group) ==
    LET indices == Decode(group.data)
    IN  [k \in 1 .. Len(indices) |-> PaletteRgb(group.palette, indices[k])]

FramePixels(imageData) ==
    [k \in 1 .. NumPixels(imageData) |-> PixelRgb(imageData, k)]

\* C6: group i is built from frame i: the control extension with the delay,
\* the descriptor at 0,0 with the declared size and flag 0x87, the frame's
\* own palette and bitstream; no frame is reordered, merged or dropped
FrameOrder ==
    GifReturned =>
        LET groups == Groups(gif.result.bytes)
        IN  /\ WellFormed(gif.result.bytes)
            /\ Len(groups) = Len(gif.frames)
            /\ \A i \in 1 .. Len(groups) :
                  /\ groups[i].control =
                        <<33, 249, 4, 0, gif.delay % 256, (gif.delay \div 256) % 256, 0, 0>>
                  /\ groups[i].descriptor =
                        <<44, 0, 0, 0, 0, gif.width % 256, (gif.width \div 256) % 256,
                          gif.height % 256, (gif.height \div 256) % 256, 135>>
                  /\ Len(groups[i].palette) = 768
                  /\ Rendered(groups[i]) = FramePixels(gif.frames[i])

\* three frames returned, the first and the last pixel-identical, the middle
\* one different
FrameOrderWitness ==
    /\ GifReturned
    /\ Len(gif.frames) = 3
    /\ gif.frames[1] = gif.frames[3]
    /\ FramePixels(gif.frames[2]) # FramePixels(gif.frames[1])

\* the one group of the container that a conversion of this frame alone, with
\* the same width, height and delay, returns
GroupAlone(frame, width, height, delay) ==
    Groups(EncodeAnimatedGif(<<frame>>, width, height, delay, 0).result.bytes)[1]

\* that group for every frame, declared size and delay tried
GroupsAlone ==
    [frame \in GifFrames |-> [size \in DeclaredSizes |-> [delay \in Delays |->
        GroupAlone(frame, size[1], size[2], delay)]]]

GifEnded == gif.pc \in {"returned", "thrown"}

\* C7: an empty frame list fails with an error and returns no container
EmptyInputIsError ==
    (GifEnded /\ Len(gif.frames) = 0) =>
        /\ gif.pc = "thrown"
        /\ gif.result = NoBlob

Mismatched(g) ==
    \E i \in 1 .. Len(g.frames) :
        \/ g.frames[i].width # g.width
        \/ g.frames[i].height # g.height
        \/ g.frames[i].width # g.frames[1].width
        \/ g.frames[i].height # g.frames[1].height

\* C8: a frame whose size differs from the first frame's or from the declared
\* width and height makes the conversion fail, and no container is returned
DimensionMismatchIsError ==
    (GifEnded /\ Mismatched(gif)) =>
        /\ gif.pc = "thrown"
        /\ gif.result = NoBlob

----------------------------------------------------------------------------
(* convertVideoToGif(videoUrl)                                             *)
(*                                                                         *)
(* Times are in milliseconds.  progress is the list of the values passed   *)
(* to updateProgress, promise the state of the promise the caller holds    *)
(* and value what it was settled with.                                     *)

maxDim == 320

fps == 10

\* Math.min(video.duration, 10): the cap of ten seconds
maxDurationMs == 10000

\* lines 375-384: scaled down to at most maxDim, then made even (w & ~1)
ScaledSide(side, vw, vh) ==
    IF vw > maxDim \/ vh > maxDim THEN RoundDiv(side * maxDim, Max(vw, vh)) ELSE side

\* a side made even by going up
EvenSideUp(side) == side + (side % 2)

EvenSide(side) == side - (side % 2)

CanvasSide(side, vw, vh) == EvenSide(ScaledSide(side, vw, vh))

\* lines 389-391
FrameCount(durationMs) == Max(1, (Min(durationMs, maxDurationMs) * fps) \div 1000)

FrameDelay == RoundDiv(100, fps)

\* line 410-411: Math.min(captured / fps, video.duration - 0.01)
SeekTime(captured, durationMs) == Min((captured * 1000) \div fps, durationMs - 10)

\* line 418: 20 + Math.round((captured / frameCount) * 58)
CaptureProgress(captured, frameCount) == 20 + RoundDiv(captured * 58, frameCount)

UpdateProgress(c, percent) == [c EXCEPT !.progress = Append(@, percent)]

\* the videos the element may load
Videos ==
    {[videoWidth |-> vw, videoHeight |-> vh, durationMs |-> d] :
        vw \in 1 .. 3, vh \in 2 .. 3, d \in {50} \cup {100 * k : k \in 1 .. MaxFrames}}
        \cup {[videoWidth |-> 1000, videoHeight |-> 10, durationMs |-> 200],
              [videoWidth |-> 6, videoHeight |-> 961, durationMs |-> 100]}

\* what getImageData may hold after a seek: one colour, or a chequer
CapturedFrames(w, h) ==
    {ImageDataOf(<<w, h>>, [k \in 1 .. w * h |-> px]) : px \in GifPixels}
        \cup {ImageDataOf(<<w, h>>,
                 [k \in 1 .. w * h |-> IF k % 2 = 1 THEN <<255, 0, 0, 255>>
                                       ELSE <<0, 0, 255, 128>>])}

\* line 342, and the request for the video
ConvStart ==
    /\ conv.pc = "call"
    /\ conv' = [UpdateProgress(conv, 12) EXCEPT !.pc = "fetching"]
    /\ UNCHANGED exceptConv

\* lines 348-350: the async function throws, its promise is rejected
ConvFetchFails ==
    /\ conv.pc = "fetching"
    /\ conv' = [conv EXCEPT !.promise = "rejected", !.pc = "settled"]
    /\ UNCHANGED exceptConv

\* lines 345-347, 353-367 and 426-427: the blob URL, the promise, video.load()
ConvFetched ==
    /\ conv.pc = "fetching"
    /\ conv' = [UpdateProgress(conv, 18) EXCEPT !.blobUrl = "created", !.pc = "loading"]
    /\ UNCHANGED exceptConv

\* lines 364-367: the video's error event
ConvVideoError ==
    /\ conv.pc = "loading"
    /\ conv' = [conv EXCEPT !.blobUrl = "revoked", !.promise = "rejected",
                            !.pc = "settled"]
    /\ UNCHANGED exceptConv

\* lines 369-393 and the first captureFrame() of line 423, which seeks
ConvLoadedData ==
    /\ conv.pc = "loading"
    /\ \E v \in Videos :
          conv' = [conv EXCEPT
              !.video = v,
              !.w = CanvasSide(v.videoWidth, v.videoWidth, v.videoHeight),
              !.h = CanvasSide(v.videoHeight, v.videoWidth, v.videoHeight),
              !.frameCount = FrameCount(v.durationMs),
              !.frameDelay = FrameDelay,
              !.captured = 0,
              !.frames = <<>>,
              !.currentTime = SeekTime(0, v.durationMs),
              !.seeks = <<SeekTime(0, v.durationMs)>>,
              !.pc = "seeking"]
    /\ UNCHANGED exceptConv

\* lines 414-421: the seeked event; getImageData throws on an empty rectangle,
\* and then the listener ends there
ConvSeeked ==
    /\ conv.pc = "seeking"
    /\ conv.w > 0 /\ conv.h > 0
    /\ \E image \in CapturedFrames(conv.w, conv.h) :
          conv' = [UpdateProgress(conv, CaptureProgress(conv.captured + 1, conv.frameCount))
                      EXCEPT !.frames = Append(@, image),
                             !.capturedAt = Append(@, conv.currentTime),
                             !.captured = @ + 1,
                             !.pc = "frame"]
    /\ UNCHANGED exceptConv

ConvSeekedThrows ==
    /\ conv.pc = "seeking"
    /\ ~(conv.w > 0 /\ conv.h > 0)
    /\ conv' = [conv EXCEPT !.pc = "hung"]
    /\ UNCHANGED exceptConv

\* lines 410-411: captureFrame() from the animation frame, frames missing
ConvSeekNext ==
    /\ conv.pc = "frame"
    /\ ~(conv.captured >= conv.frameCount)
    /\ conv' = [conv EXCEPT !.currentTime = SeekTime(conv.captured, conv.video.durationMs),
                            !.seeks = Append(@, SeekTime(conv.captured, conv.video.durationMs)),
                            !.pc = "seeking"]
    /\ UNCHANGED exceptConv

\* lines 396-400: captureFrame() with all frames: the encoder is called
ConvEncode ==
    /\ conv.pc = "frame"
    /\ conv.captured >= conv.frameCount
    /\ conv' = [UpdateProgress(conv, 80) EXCEPT !.encodes = @ + 1, !.pc = "encoding"]
    /\ \E failAt \in 0 .. Len(conv.frames) :
          gif' = GifCall(conv.frames, conv.w, conv.h, conv.frameDelay, failAt)
    /\ UNCHANGED exceptConvGif

\* what the promise's holder gets on the two ways out of the try block
Resolved(c, blob) ==
    [c EXCEPT !.blobUrl = "revoked", !.promise = "resolved", !.value = blob,
              !.pc = "settled"]

Rejected(c) ==
    [c EXCEPT !.blobUrl = "revoked", !.promise = "rejected", !.pc = "settled"]

\* lines 401-402: cleanup(); resolve(gifBlob)
ConvResolve ==
    /\ conv.pc = "encoding"
    /\ gif.pc = "returned"
    /\ conv' = Resolved(conv, gif.result)
    /\ UNCHANGED exceptConv

\* lines 403-406: cleanup(); reject(...)
ConvReject ==
    /\ conv.pc = "encoding"
    /\ gif.pc = "thrown"
    /\ conv' = Rejected(conv)
    /\ UNCHANGED exceptConv

\* The caller asks for the conversion to be cancelled once some, but not all,
\* frames are captured.  convertVideoToGif takes no signal and registers no
\* listener for one, so the request changes nothing that its code reads:
\* cancelRequested and cancelledAfter only record that it was made, and after
\* how many frames.
CancelRequested ==
    /\ conv.pc \in {"seeking", "frame"}
    /\ conv.captured >= 1
    /\ conv.captured < conv.frameCount
    /\ ~conv.cancelRequested
    /\ conv' = [conv EXCEPT !.cancelRequested = TRUE, !.cancelledAfter = conv.captured]
    /\ UNCHANGED exceptConv

ConvCall ==
    [pc |-> "call", progress |-> <<>>, promise |-> "pending", value |-> NoBlob,
     blobUrl |-> "none", video |-> [videoWidth |-> 0, videoHeight |-> 0, durationMs |-> 0],
     w |-> 0, h |-> 0, frameCount |-> 0, frameDelay |-> 0, captured |-> 0,
     frames |-> <<>>, currentTime |-> 0, seeks |-> <<>>, capturedAt |-> <<>>,
     encodes |-> 0, cancelRequested |-> FALSE, cancelledAfter |-> 0]

Init ==
    /\ conv = ConvCall
    /\ ctl = CtlIdle
    /\ gif = GifIdle
    /\ lzw = LzwIdle
    /\ dec = DecIdle
    /\ quant = QuantIdle
    /\ page = PageIdle

Next ==
    \/ ConvStart
    \/ ConvFetchFails
    \/ ConvFetched
    \/ ConvVideoError
    \/ ConvLoadedData
    \/ ConvSeeked
    \/ ConvSeekedThrows
    \/ ConvSeekNext
    \/ CancelRequested
    \/ ConvEncode
    \/ GifStart
    \/ GifFrame
    \/ GifFrameThrows
    \/ GifTrailer
    \/ ConvResolve
    \/ ConvReject

Spec == Init /\ [][Next]_vars

----------------------------------------------------------------------------
(* The conversion as its caller sees it.                                   *)

Complete(blob, frames, width, height) ==
    /\ blob.type = "image/gif"
    /\ SubSeq(blob.bytes, 1, HeaderLen) = ExpectedHeader(width, height)
    /\ WellFormed(blob.bytes)
    /\ Len(Groups(blob.bytes)) = Len(frames)
    /\ blob.bytes[Len(blob.bytes)] = 59

\* C9: the encoder returns one complete container (header, all N groups,
\* trailer) or throws and returns nothing; when frame k fails no bytes of
\* the frames before reach the caller and the promise is rejected, never
\* resolved
NoPartialContainer ==
    /\ gif.pc = "frames" => gif.result = NoBlob
    /\ gif.pc = "thrown" => gif.result = NoBlob
    /\ gif.pc = "returned" => Complete(gif.result, gif.frames, gif.width, gif.height)
    /\ conv.promise # "resolved" => conv.value = NoBlob
    /\ conv.promise = "resolved" =>
          /\ gif.pc = "returned"
          /\ conv.value = gif.result
          /\ Complete(conv.value, conv.frames, conv.w, conv.h)
    /\ (conv.pc = "settled" /\ gif.pc = "thrown") => conv.promise = "rejected"

\* the third frame failed after two were written, and the promise is settled
NoPartialContainerWitness ==
    /\ conv.pc = "settled"
    /\ gif.pc = "thrown"
    /\ gif.failAt = 3
    /\ gif.fi = 2
    /\ conv.promise = "rejected"

NonDecreasing(s) ==
    \A k \in 1 .. Len(s) - 1 : s[k] <= s[k + 1]

Converted == conv.pc = "settled" /\ conv.promise = "resolved"

\* the values reported never fall, and one is reported after every frame
ProgressNonDecreasing ==
    /\ NonDecreasing(conv.progress)
    /\ conv.pc \in {"frame", "seeking", "hung"} => Len(conv.progress) = 2 + conv.captured

\* C10: the progress values of a conversion never fall, one is reported after
\* every frame, and the last one is 100, reported after the container exists
ProgressMonotonicity ==
    Converted =>
        /\ NonDecreasing(conv.progress)
        /\ Len(conv.progress) >= 2 + conv.frameCount
        /\ conv.progress[Len(conv.progress)] = 100
        /\ \A k \in 1 .. Len(conv.progress) - 1 : conv.progress[k] < 100

\* C11: after cancellation is triggered with k < N frames processed, no
\* further frame is processed, the encoder is not run, and the conversion
\* ends cancelled, handing no bytes to the caller
Cancellation ==
    conv.cancelRequested =>
        /\ conv.captured = conv.cancelledAfter
        /\ gif.pc = "idle"
        /\ conv.promise # "resolved"
        /\ conv.value = NoBlob

\* the video is loaded and the canvas has its size
Sized == conv.pc \in {"seeking", "frame", "hung", "encoding"} \/ (conv.pc = "settled" /\ conv.w + conv.h > 0)

\* side is what the decoded side becomes: scaled when a side of the video
\* exceeds 320, so that neither does, then the next even number down
EvenDown(side, decoded) ==
    /\ side % 2 = 0
    /\ side \in 0 .. maxDim
    /\ side \in {ScaledSide(decoded, conv.video.videoWidth, conv.video.videoHeight) - 1,
                 ScaledSide(decoded, conv.video.videoWidth, conv.video.videoHeight)}
    /\ ScaledSide(decoded, conv.video.videoWidth, conv.video.videoHeight) <= maxDim
    /\ (conv.video.videoWidth <= maxDim /\ conv.video.videoHeight <= maxDim) =>
          side \in {decoded - 1, decoded}

\* C21: the width and height passed to the encoder are even (the decoded
\* size, scaled to at most 320, then truncated to even); every captured
\* frame has this width and height, and so have the logical screen
\* descriptor and every image descriptor
EvenUniformDimensions ==
    /\ Sized =>
          /\ EvenDown(conv.w, conv.video.videoWidth)
          /\ EvenDown(conv.h, conv.video.videoHeight)
          /\ \A k \in 1 .. Len(conv.frames) :
                /\ conv.frames[k].width = conv.w
                /\ conv.frames[k].height = conv.h
                /\ NumPixels(conv.frames[k]) = conv.w * conv.h
    /\ gif.pc # "idle" =>
          /\ gif.width = conv.w
          /\ gif.height = conv.h
          /\ gif.frames = conv.frames
    /\ gif.pc = "returned" =>
          /\ SubSeq(gif.result.bytes, 7, 10) =
                <<conv.w % 256, conv.w \div 256, conv.h % 256, conv.h \div 256>>
          /\ \A k \in 1 .. Len(Groups(gif.result.bytes)) :
                SubSeq(Groups(gif.result.bytes)[k].descriptor, 6, 9) =
                    <<conv.w % 256, conv.w \div 256, conv.h % 256, conv.h \div 256>>

\* a video of 1000 x 10 converted: 320 x 3 after scaling, 320 x 2 encoded,
\* in two frames
EvenUniformDimensionsWitness ==
    /\ Converted
    /\ conv.video.videoWidth > maxDim
    /\ conv.w = maxDim
    /\ ScaledSide(conv.video.videoHeight, conv.video.videoWidth, conv.video.videoHeight) = 3
    /\ conv.h = 2
    /\ Len(conv.frames) = 2
    /\ Len(Groups(conv.value.bytes)) = 2

\* conv.seeks holds the times assigned to video.currentTime, conv.capturedAt
\* the time the video was at when each frame was captured, conv.encodes counts
\* the calls of encodeAnimatedGif.

\* the frames in the order of their seeks: frame k captured at the time of
\* the k-th seek, min(k / fps, duration - 0.01), and no seek without need
CaptureOrder ==
    conv.pc \in {"seeking", "frame", "hung", "encoding", "settled"} =>
        /\ Len(conv.frames) = conv.captured
        /\ Len(conv.capturedAt) = conv.captured
        /\ Len(conv.seeks) <= conv.frameCount
        /\ Len(conv.seeks) \in {conv.captured, conv.captured + 1}
        /\ \A k \in 1 .. Len(conv.seeks) :
               conv.seeks[k] = Min((k - 1) * (1000 \div fps), conv.video.durationMs - 10)
        /\ \A k \in 1 .. conv.captured : conv.capturedAt[k] = conv.seeks[k]

\* the encoder called once, with all the frames and after the last seek, the
\* blob URL revoked when the promise is settled, with the encoder's result
EncodedOnce ==
    /\ conv.pc # "idle" => conv.encodes <= 1
    /\ (conv.pc # "idle" /\ conv.encodes = 1) =>
          /\ conv.captured = conv.frameCount
          /\ Len(conv.seeks) = conv.frameCount
          /\ gif.pc # "idle"
          /\ gif.frames = conv.frames
    /\ (conv.pc = "settled" /\ conv.encodes = 1) =>
          /\ conv.blobUrl = "revoked"
          /\ conv.promise = "resolved" => (gif.pc = "returned" /\ conv.value = gif.result)
          /\ conv.promise = "rejected" => gif.pc = "thrown"

\* the parts of the protocol that say what is done in which order
CaptureProtocolOrder == CaptureOrder /\ EncodedOnce

\* a conversion whose video was loaded and that has no step left to take
AtRest == conv.pc \in {"hung", "settled"} /\ Len(conv.seeks) > 0

\* C27: the encoder is invoked exactly once per conversion, after frameCount
\* frames captured in the order of their seeks, frame k at the seek to
\* min(k / fps, duration - 0.01); no seek follows the last capture, the blob
\* URL is revoked before the promise settles, and the promise is resolved with
\* the encoder's output or rejected with its error
FrameCaptureProtocol ==
    /\ CaptureProtocolOrder
    /\ AtRest =>
          /\ conv.encodes = 1
          /\ conv.promise \in {"resolved", "rejected"}
          /\ conv.blobUrl = "revoked"

----------------------------------------------------------------------------
(* The controllers and the download button.                                *)
(*                                                                         *)
(* The file holds two scripts, each with a twitterGifController of its own *)
(* and each binding its downloadGif to the click of #download-gif-btn      *)
(* (lines 1041 and 1843); a field ending in 1 belongs to the first script, *)
(* one ending in 2 to the second.  mp4Url says whether                     *)
(* currentMediaData?.mp4Url is set, converting counts the calls of         *)
(* convertVideoToGif that have not settled.                                *)

MaxClicks == 3

\* lines 923-931: downloadGif of the first script, up to its await
DownloadGif(c) ==
    IF ~c.mp4Url1 THEN [c EXCEPT !.toast = "No media loaded"]
    ELSE [c EXCEPT !.toast = "Converting to GIF", !.converting1 = @ + 1]

\* lines 1704-1724: downloadGif of the second script, up to its await
DownloadGifSecond(c) ==
    IF ~c.mp4Url2 THEN [c EXCEPT !.toast = "No media loaded"]
    ELSE [c EXCEPT !.btnDisabled = TRUE, !.toast = "Converting to GIF",
                   !.converting2 = @ + 1]

\* a click on the button, which a disabled button does not receive: both
\* listeners run, in the order they were added
ClickDownloadGif ==
    /\ ctl.pc = "ready"
    /\ ~ctl.btnDisabled
    /\ ctl.clicks < MaxClicks
    /\ ctl' = DownloadGifSecond(DownloadGif([ctl EXCEPT !.clicks = @ + 1]))
    /\ UNCHANGED exceptCtl

\* lines 931-933: the promise is resolved
GifConverted ==
    /\ ctl.pc = "ready"
    /\ ctl.converting1 > 0
    /\ ctl' = [ctl EXCEPT !.converting1 = @ - 1, !.downloads = @ + 1,
                          !.toast = "GIF downloaded successfully"]
    /\ UNCHANGED exceptCtl

\* lines 934-937: the promise is rejected
GifConversionFailed ==
    /\ ctl.pc = "ready"
    /\ ctl.converting1 > 0
    /\ ctl' = [ctl EXCEPT !.converting1 = @ - 1, !.toast = "GIF conversion failed"]
    /\ UNCHANGED exceptCtl

\* lines 1724-1726 and 1730-1735
GifConvertedSecond ==
    /\ ctl.pc = "ready"
    /\ ctl.converting2 > 0
    /\ ctl' = [ctl EXCEPT !.converting2 = @ - 1, !.downloads = @ + 1,
                          !.toast = "GIF downloaded successfully",
                          !.btnDisabled = FALSE]
    /\ UNCHANGED exceptCtl

\* lines 1727-1735
GifConversionFailedSecond ==
    /\ ctl.pc = "ready"
    /\ ctl.converting2 > 0
    /\ ctl' = [ctl EXCEPT !.converting2 = @ - 1, !.toast = "GIF conversion failed",
                          !.btnDisabled = FALSE]
    /\ UNCHANGED exceptCtl

\* the page with its scripts loaded; each script has found media or not
InitCtl ==
    /\ \E m1 \in BOOLEAN, m2 \in BOOLEAN :
          ctl = [pc |-> "ready", mp4Url1 |-> m1, mp4Url2 |-> m2,
                 btnDisabled |-> FALSE, converting1 |-> 0, converting2 |-> 0,
                 clicks |-> 0, downloads |-> 0, toast |-> "none"]
    /\ lzw = LzwIdle
    /\ dec = DecIdle
    /\ quant = QuantIdle
    /\ gif = GifIdle
    /\ conv = ConvIdle
    /\ page = PageIdle

NextCtl ==
    \/ ClickDownloadGif
    \/ GifConverted
    \/ GifConversionFailed
    \/ GifConvertedSecond
    \/ GifConversionFailedSecond

SpecCtl == InitCtl /\ [][NextCtl]_vars

\* C12: a controller never has two conversions in progress at once: a request
\* made while an earlier conversion has not settled starts no other one
NoConcurrentConversions ==
    /\ ctl.pc = "ready" => ctl.converting1 <= 1
    /\ ctl.pc = "ready" => ctl.converting2 <= 1

----------------------------------------------------------------------------
(* One script's controller: processUrl, fetchTweetMetadata and the         *)
(* download actions.                                                       *)
(*                                                                         *)
(* page.script says which of the file's two scripts the controller belongs *)
(* to.  page.now is Date.now() in milliseconds; page.runs holds the        *)
(* activations of processUrl that are suspended at their await,            *)
(* page.conversions the calls of convertVideoToGif that have not settled.  *)
(* page.requests (the values assigned to lastRequestTime), page.files (the *)
(* files handed to generateDownloadLink), page.returned (the calls of      *)
(* processUrl that returned at line 863) and page.waits (the timers set at *)
(* line 158) are histories kept for the properties.                        *)

RATE_LIMIT_MS == 2000

RATE_LIMIT_MS_2 == 800

MaxCalls == 2

MaxTicks == 1

MaxSaves == 1

\* the clock advances in steps of this many milliseconds
TickMs == RATE_LIMIT_MS \div 2

\* Date.now() when the page is loaded, far from lastRequestTime = 0
LoadTime == 4 * RATE_LIMIT_MS

RateLimitMs(script) == IF script = 1 THEN RATE_LIMIT_MS ELSE RATE_LIMIT_MS_2

TweetIds == {"111", "222"}

\* what the user may have in #twitter-url-input
UrlInputs ==
    {"", "hello", "https://example.com/a",
     "https://x.com/u/status/111", " https://twitter.com/u/status/222 "}

\* url.trim() is empty
IsBlank(url) == url = ""

\* new URL(trimmed) does not throw
ParsesAsUrl(url) == url \notin {"", "hello"}

\* match[3] of TWITTER_URL_REGEX on the trimmed text, "none" without a match
StatusIdOf(url) ==
    CASE url = "https://x.com/u/status/111" -> "111"
      [] url = " https://twitter.com/u/status/222 " -> "222"
      [] OTHER -> "none"

validateUrl(url) ==
    IF IsBlank(url)
    THEN [valid |-> FALSE, error |-> "Please enter a Twitter/X URL."]
    ELSE IF ~ParsesAsUrl(url)
    THEN [valid |-> FALSE, error |-> "That doesn't look like a valid URL."]
    ELSE IF StatusIdOf(url) = "none"
    THEN [valid |-> FALSE, error |-> "Please enter a valid Twitter/X post URL"]
    ELSE [valid |-> TRUE, tweetId |-> StatusIdOf(url)]

\* a value found where a URL is expected: a string (scheme and file of a
\* tweet's video; the empty string has neither), a number, undefined or null
StringUrl(tweet, scheme, file) ==
    [type |-> "string", tweet |-> tweet, scheme |-> scheme, file |-> file]

EmptyString == [type |-> "string", tweet |-> "none", scheme |-> "", file |-> ""]

UndefinedUrl == [type |-> "undefined", tweet |-> "none", scheme |-> "", file |-> ""]

NullUrl == [type |-> "null", tweet |-> "none", scheme |-> "", file |-> ""]

NumberUrl(tweet) == [type |-> "number", tweet |-> tweet, scheme |-> "", file |-> ""]

\* JavaScript's truthiness of such a value
Truthy(u) == u.type = "number" \/ (u.type = "string" /\ u.file # "")

\* a || b
OrElse(a, b) == IF Truthy(a) THEN a ELSE b

\* the videos of tweet id as the services name them
Hi(id) == StringUrl(id, "https", "hi.mp4")

Lo(id) == StringUrl(id, "https", "lo.mp4")

Playlist(id) == StringUrl(id, "https", "pl.m3u8")

Plain(id) == StringUrl(id, "http", "hi.mp4")

Variant(content_type, url, bitrate) ==
    [content_type |-> content_type, url |-> url, bitrate |-> bitrate]

LegacyVariant(type, src, url, bitrate) ==
    [type |-> type, src |-> src, url |-> url, bitrate |-> bitrate]

\* what the syndication endpoint may answer for tweet id: no answer or no
\* JSON, or data with mediaDetails, data.video.variants and data.text
SyndicationResponses(id) ==
    {[ok |-> FALSE],
     [ok |-> TRUE, text |-> TRUE, video |-> <<>>,
      mediaDetails |-> <<[type |-> "video",
                          variants |-> <<Variant("application/x-mpegURL", Playlist(id), 0),
                                         Variant("video/mp4", Lo(id), 832),
                                         Variant("video/mp4", Hi(id), 2176)>>]>>],
     [ok |-> TRUE, text |-> TRUE, video |-> <<>>,
      mediaDetails |-> <<[type |-> "animated_gif",
                          variants |-> <<Variant("video/mp4", Lo(id), 0)>>]>>],
     [ok |-> TRUE, text |-> TRUE, video |-> <<>>,
      mediaDetails |-> <<[type |-> "photo", variants |-> <<>>]>>],
     [ok |-> TRUE, text |-> FALSE, video |-> <<>>, mediaDetails |-> <<>>],
     [ok |-> TRUE, text |-> TRUE, mediaDetails |-> <<>>,
      video |-> <<LegacyVariant("video/mp4", Hi(id), UndefinedUrl, 0)>>],
     [ok |-> TRUE, text |-> TRUE, mediaDetails |-> <<>>,
      video |-> <<LegacyVariant("video/mp4", UndefinedUrl, UndefinedUrl, 0)>>]}

\* what fxtwitter may answer: no answer, or tweet.media's videos and photos
FxResponses(id) ==
    {[ok |-> FALSE],
     [ok |-> TRUE, photos |-> FALSE,
      videos |-> <<[url |-> Plain(id), bitrate |-> 0, type |-> "video"]>>],
     [ok |-> TRUE, photos |-> FALSE,
      videos |-> <<[url |-> UndefinedUrl, bitrate |-> 0, type |-> "gif"]>>],
     [ok |-> TRUE, photos |-> TRUE, videos |-> <<>>],
     [ok |-> TRUE, photos |-> FALSE, videos |-> <<>>]}

\* what the cobalt endpoint may answer: fetch throws, or a response that is
\* ok or not, with data.status, data.url and data.picker
CobaltResponses(id) ==
    {[threw |-> TRUE],
     [threw |-> FALSE, ok |-> FALSE],
     [threw |-> FALSE, ok |-> TRUE, status |-> "stream", url |-> Hi(id),
      hasPicker |-> FALSE, picker |-> <<>>],
     [threw |-> FALSE, ok |-> TRUE, status |-> "redirect", url |-> UndefinedUrl,
      hasPicker |-> FALSE, picker |-> <<>>],
     [threw |-> FALSE, ok |-> TRUE, status |-> "redirect", url |-> NumberUrl(id),
      hasPicker |-> FALSE, picker |-> <<>>],
     [threw |-> FALSE, ok |-> TRUE, status |-> "picker", url |-> UndefinedUrl,
      hasPicker |-> TRUE, picker |-> <<[url |-> Lo(id)], [url |-> Hi(id)]>>],
     [threw |-> FALSE, ok |-> TRUE, status |-> "picker", url |-> UndefinedUrl,
      hasPicker |-> TRUE, picker |-> <<>>],
     [threw |-> FALSE, ok |-> TRUE, status |-> "error", url |-> UndefinedUrl,
      hasPicker |-> FALSE, picker |-> <<>>]}

MediaUrl(url, bitrate) == [url |-> url, bitrate |-> bitrate]

\* lines 108-117: the mp4 variants of one media entry that have a url
Mp4Variants(variants) ==
    LET kept == SelectSeq(variants,
                          LAMBDA v : v.content_type = "video/mp4" /\ Truthy(v.url))
    IN  [k \in 1 .. Len(kept) |-> MediaUrl(kept[k].url, kept[k].bitrate)]

\* lines 105-122: the loop over mediaDetails from entry k on
RECURSIVE DetailVideos(_, _)
DetailVideos(mediaDetails, k) ==
    IF k > Len(mediaDetails) THEN <<>>
    ELSE (IF mediaDetails[k].type \in {"video", "animated_gif"}
          THEN Mp4Variants(mediaDetails[k].variants)
          ELSE <<>>) \o DetailVideos(mediaDetails, k + 1)

\* variant.src.includes('.mp4')
IncludesMp4(u) == u.type = "string" /\ u.file \in {"hi.mp4", "lo.mp4"}

\* lines 125-138: the variants of data.video
LegacyVideos(variants) ==
    LET kept == SelectSeq(variants,
                          LAMBDA v : v.type = "video/mp4"
                                       \/ (Truthy(v.src) /\ IncludesMp4(v.src)))
    IN  [k \in 1 .. Len(kept) |-> MediaUrl(OrElse(kept[k].src, kept[k].url), kept[k].bitrate)]

\* the videos of parseSyndicationVideo(data)
parseSyndicationVideo(data) ==
    LET videos == DetailVideos(data.mediaDetails, 1)
    IN  IF Len(videos) = 0 THEN LegacyVideos(data.video) ELSE videos

\* data.mediaDetails?.[0]?.type === 'animated_gif' ? 'gif' : 'video'
SyndicationMediaType(data) ==
    IF Len(data.mediaDetails) > 0 /\ data.mediaDetails[1].type = "animated_gif"
    THEN "gif" ELSE "video"

\* the videos of fxtwitter that have a url
FxVideoList(videos) ==
    LET kept == SelectSeq(videos, LAMBDA v : Truthy(v.url))
    IN  [k \in 1 .. Len(kept) |-> MediaUrl(kept[k].url, kept[k].bitrate)]

\* the media of a cobalt answer, both scripts alike
CobaltUsable(cob) ==
    /\ ~cob.threw
    /\ cob.ok
    /\ cob.status \in {"stream", "redirect"} \/ (cob.status = "picker" /\ cob.hasPicker)

CobaltMediaUrls(cob) ==
    IF cob.status \in {"stream", "redirect"} THEN <<MediaUrl(cob.url, 0)>>
    ELSE [k \in 1 .. Len(cob.picker) |-> MediaUrl(cob.picker[k].url, 0)]

Metadata(tweetId, mediaType, mediaUrls, source, error) ==
    [tweetId |-> tweetId, mediaType |-> mediaType, mediaUrls |-> mediaUrls,
     source |-> source, error |-> error]

NoVideoMessage == "This tweet does not contain a video or GIF."

ImagesMessage == "This tweet contains images but no videos or GIFs."

UnavailableMessage == "Could not extract media."

\* e.includes('does not contain') || e.includes('images but no')
SaysNoVideo(e) == e \in {NoVideoMessage, ImagesMessage}

\* lines 162-317: what fetchTweetMetadata of the first script returns on the
\* three answers, the strategies tried one after the other
FetchSequential(tweetId, syn, fx, cob) ==
    LET videos == IF syn.ok THEN parseSyndicationVideo(syn) ELSE <<>>
        errors1 == IF ~syn.ok THEN <<"Syndication: failed">>
                   ELSE IF syn.text THEN <<NoVideoMessage>> ELSE <<>>
        videoList == IF fx.ok THEN FxVideoList(fx.videos) ELSE <<>>
        errors2 == IF ~fx.ok THEN <<"fxtwitter: failed">>
                   ELSE IF fx.photos /\ Len(fx.videos) = 0 THEN <<ImagesMessage>>
                   ELSE <<>>
        errors3 == IF cob.threw THEN <<"Cobalt: failed">> ELSE <<>>
        errors == (errors1 \o errors2) \o errors3
        noVideo == SelectSeq(errors, SaysNoVideo)
    IN  IF Len(videos) > 0
        THEN Metadata(tweetId, SyndicationMediaType(syn), videos, "Twitter CDN", "undefined")
        ELSE IF Len(videoList) > 0
        THEN Metadata(tweetId, IF fx.videos[1].type = "gif" THEN "gif" ELSE "video",
                      videoList, "fxtwitter", "undefined")
        ELSE IF CobaltUsable(cob)
        THEN Metadata(tweetId, "video", CobaltMediaUrls(cob), "cobalt", "undefined")
        ELSE IF Len(noVideo) > 0
        THEN Metadata(tweetId, "none", <<>>, "none", noVideo[1])
        ELSE Metadata(tweetId, "video", <<>>, "fallback", UnavailableMessage)

\* lines 1246-1307: the strategies of the second script, each fulfilled with
\* metadata or rejected with a message
Strategy1(tweetId, syn) ==
    IF ~syn.ok THEN [fulfilled |-> FALSE, message |-> "failed"]
    ELSE IF Len(parseSyndicationVideo(syn)) = 0
    THEN [fulfilled |-> FALSE, message |-> "No video in syndication response"]
    ELSE [fulfilled |-> TRUE,
          value |-> Metadata(tweetId, SyndicationMediaType(syn),
                             parseSyndicationVideo(syn), "Twitter CDN", "undefined")]

Strategy2(tweetId, fx) ==
    IF ~fx.ok THEN [fulfilled |-> FALSE, message |-> "failed"]
    ELSE IF Len(fx.videos) = 0
    THEN [fulfilled |-> FALSE, message |-> "No video in fxtwitter response"]
    ELSE IF Len(FxVideoList(fx.videos)) = 0
    THEN [fulfilled |-> FALSE, message |-> "No valid video URLs"]
    ELSE [fulfilled |-> TRUE,
          value |-> Metadata(tweetId, IF fx.videos[1].type = "gif" THEN "gif" ELSE "video",
                             FxVideoList(fx.videos), "fxtwitter", "undefined")]

Strategy3(tweetId, cob) ==
    IF cob.threw THEN [fulfilled |-> FALSE, message |-> "failed"]
    ELSE IF ~cob.ok THEN [fulfilled |-> FALSE, message |-> "Cobalt HTTP"]
    ELSE IF CobaltUsable(cob)
    THEN [fulfilled |-> TRUE,
          value |-> Metadata(tweetId, "video", CobaltMediaUrls(cob), "cobalt", "undefined")]
    ELSE [fulfilled |-> FALSE, message |-> "Cobalt returned no usable data"]

\* m.includes('No video')
IncludesNoVideo(m) ==
    m \in {"No video in syndication response", "No video in fxtwitter response"}

\* lines 1309-1326: Promise.any is fulfilled with the value of a strategy that
\* is fulfilled, whichever comes first; with none, the metadata of the catch
FetchRaced(tweetId, syn, fx, cob) ==
    LET settled == {Strategy1(tweetId, syn), Strategy2(tweetId, fx), Strategy3(tweetId, cob)}
        won == {s \in settled : s.fulfilled}
        noVideo == \E s \in settled : IncludesNoVideo(s.message)
    IN  IF won # {} THEN {s.value : s \in won}
        ELSE {Metadata(tweetId, IF noVideo THEN "none" ELSE "video", <<>>, "none",
                       IF noVideo THEN NoVideoMessage ELSE UnavailableMessage)}

\* everything fetchTweetMetadata may be fulfilled with for a tweet
Metadatas(script, tweetId) ==
    UNION {IF script = 1 THEN {FetchSequential(tweetId, syn, fx, cob)}
                         ELSE FetchRaced(tweetId, syn, fx, cob) :
           syn \in SyndicationResponses(tweetId), fx \in FxResponses(tweetId),
           cob \in CobaltResponses(tweetId)}

\* the same, computed once
MetadataTable ==
    [script \in {1, 2} |-> [tweetId \in TweetIds |-> Metadatas(script, tweetId)]]

\* [...mediaUrls].sort((a, b) => (b.bitrate || 0) - (a.bitrate || 0))[0]: the
\* sort is stable, so the first of the entries of the highest bitrate
SortedFirst(mediaUrls) ==
    mediaUrls[CHOOSE k \in 1 .. Len(mediaUrls) :
                  /\ \A j \in 1 .. Len(mediaUrls) : mediaUrls[j].bitrate <= mediaUrls[k].bitrate
                  /\ \A j \in 1 .. k - 1 : mediaUrls[j].bitrate < mediaUrls[k].bitrate]

\* lines 1331-1334: url.replace(/^http:\/\//i, 'https://'), which a value
\* that is no string does not have
ensureHttps(url) ==
    IF ~Truthy(url) THEN [threw |-> FALSE, value |-> url]
    ELSE IF url.type # "string" THEN [threw |-> TRUE]
    ELSE [threw |-> FALSE,
          value |-> IF url.scheme = "http" THEN [url EXCEPT !.scheme = "https"] ELSE url]

\* lines 322-331 and 1339-1349
extractVideo(script, mediaUrls) ==
    LET url == IF Len(mediaUrls) = 0 THEN NullUrl
               ELSE OrElse(OrElse(SortedFirst(mediaUrls).url, mediaUrls[1].url), NullUrl)
    IN  IF script = 1 \/ Len(mediaUrls) = 0 THEN [threw |-> FALSE, value |-> url]
        ELSE ensureHttps(url)

\* currentMediaData = null
NoMedia ==
    [loaded |-> FALSE, tweetId |-> "none", mp4Url |-> NullUrl, originalUrl |-> ""]

\* currentMediaData?.mp4Url is truthy
HasMp4(p) == p.currentMediaData.loaded /\ Truthy(p.currentMediaData.mp4Url)

\* a guard that lets every call through
NeverBusy(p) == FALSE

\* line 863: if (isProcessing) return
Busy(p) == p.isProcessing

\* a limit of half the time
RateLimitedHalf(elapsed, limit) == elapsed < limit \div 2

\* line 157: if (elapsed < RATE_LIMIT_MS)
RateLimited(elapsed, limit) == elapsed < limit

\* the loading state hidden, the button left as it is
hideLoadingOnly(p) == [p EXCEPT !.loading = FALSE]

\* lines 787-799
hideLoading(p) == [p EXCEPT !.loading = FALSE, !.submitDisabled = FALSE]

\* line 160: lastRequestTime = Date.now(), the strategies started
RequestsBegin(p, k) ==
    [p EXCEPT !.lastRequestTime = p.now,
              !.requests = Append(@, p.now),
              !.runs[k].pc = "fetching"]

\* lines 150-160: fetchTweetMetadata up to its first await, for the
\* activation of processUrl just added to p.runs
fetchTweetMetadata(p) ==
    LET elapsed == p.now - p.lastRequestTime
        limit == RateLimitMs(p.script)
    IN  IF RateLimited(elapsed, limit)
        THEN [p EXCEPT !.runs[Len(p.runs)].wakeAt = p.now + (limit - elapsed),
                       !.waits = @ + 1]
        ELSE RequestsBegin(p, Len(p.runs))

\* lines 862-883: processUrl up to its await
processUrl(p, url) ==
    IF Busy(p) THEN [p EXCEPT !.returned = @ + 1]
    ELSE IF ~validateUrl(url).valid
    THEN [p EXCEPT !.error = validateUrl(url).error]
    ELSE fetchTweetMetadata(
             [p EXCEPT !.error = "hidden", !.isProcessing = TRUE,
                       !.loading = TRUE, !.preview = FALSE, !.submitDisabled = TRUE,
                       !.progress = 20,
                       !.runs = Append(@, [pc |-> "limited", wakeAt |-> p.now,
                                           url |-> url,
                                           tweetId |-> validateUrl(url).tweetId])])

\* lines 884-917: processUrl from its await on, metadata being the value of
\* fetchTweetMetadata
processUrlResumed(p, url, metadata) ==
    LET mp4Url == extractVideo(p.script, metadata.mediaUrls)
    IN  IF metadata.error # "undefined" /\ Len(metadata.mediaUrls) = 0
        THEN [hideLoading(p) EXCEPT !.progress = 50, !.error = metadata.error,
                                    !.isProcessing = FALSE]
        ELSE IF mp4Url.threw
        THEN [hideLoading(p) EXCEPT !.progress = 50,
                                    !.error = "url.replace is not a function",
                                    !.toast = "Failed to process URL",
                                    !.isProcessing = FALSE]
        ELSE [hideLoading(p) EXCEPT !.progress = 100,
                                    !.currentMediaData =
                                        [loaded |-> TRUE, tweetId |-> metadata.tweetId,
                                         mp4Url |-> mp4Url.value,
                                         originalUrl |-> url],
                                    !.preview = TRUE,
                                    !.toast = "Media found! Ready to download.",
                                    !.isProcessing = FALSE]

\* p.runs without its k-th activation
WithoutRun(p, k) ==
    [p EXCEPT !.runs = SubSeq(@, 1, k - 1) \o SubSeq(@, k + 1, Len(@))]

\* `twitter-gif-${currentMediaData.tweetId}.gif`
GifFileName(p) == <<"twitter-gif-", p.currentMediaData.tweetId, ".gif">>

\* lines 923-931 and 1704-1724: downloadGif up to its await
downloadGif(p) ==
    IF ~HasMp4(p) THEN [p EXCEPT !.toast = "No media loaded. Paste a URL first!"]
    ELSE [p EXCEPT !.toast = "Converting to GIF... this may take a moment.",
                   !.gifBtnDisabled = (p.script = 2),
                   !.conversions = Append(@, [mp4Url |-> p.currentMediaData.mp4Url])]

\* lines 932-933 and 1725-1735: downloadGif resumed with the GIF of its
\* k-th conversion
downloadGifResumed(p, k) ==
    [p EXCEPT !.files = Append(@, [filename |-> GifFileName(p),
                                   of |-> p.conversions[k].mp4Url]),
              !.toast = "GIF downloaded successfully!",
              !.gifBtnDisabled = FALSE,
              !.conversions = SubSeq(@, 1, k - 1) \o SubSeq(@, k + 1, Len(@))]

\* lines 934-937 and 1727-1735: downloadGif resumed with a rejection
downloadGifFailed(p, k) ==
    [p EXCEPT !.toast = "GIF conversion failed. Try downloading as MP4 instead.",
              !.gifBtnDisabled = FALSE,
              !.conversions = SubSeq(@, 1, k - 1) \o SubSeq(@, k + 1, Len(@))]

\* lines 1033, 1037 and 1050-1058: a click on the submit button, which a
\* disabled button does not receive, the Enter key in the input, or text
\* pasted into it that matches TWITTER_URL_REGEX
ProcessUrlCalled ==
    /\ page.pc = "ready"
    /\ page.calls < MaxCalls
    /\ \E trigger \in {"click", "Enter", "paste"}, url \in UrlInputs :
          /\ trigger = "click" => ~page.submitDisabled
          /\ trigger = "paste" => StatusIdOf(url) # "none"
          /\ page' = processUrl([page EXCEPT !.calls = @ + 1], url)
    /\ UNCHANGED exceptPage

\* a timer of line 158 is still to fire
TimerPending ==
    \E k \in 1 .. Len(page.runs) :
        page.runs[k].pc = "limited" /\ page.runs[k].wakeAt > page.now

\* time passes
Tick ==
    /\ page.pc = "ready"
    /\ page.ticks < MaxTicks \/ TimerPending
    /\ page' = [page EXCEPT !.now = @ + TickMs, !.ticks = @ + 1]
    /\ UNCHANGED exceptPage

\* lines 158-160: the timer of the rate limit fires, not before its time
RateLimitOver ==
    /\ page.pc = "ready"
    /\ \E k \in 1 .. Len(page.runs) :
          /\ page.runs[k].pc = "limited"
          /\ page.now >= page.runs[k].wakeAt
          /\ page' = RequestsBegin(page, k)
    /\ UNCHANGED exceptPage

\* line 883: fetchTweetMetadata is fulfilled and processUrl runs to its end
MetadataFetched ==
    /\ page.pc = "ready"
    /\ \E k \in 1 .. Len(page.runs) :
          /\ page.runs[k].pc = "fetching"
          /\ \E metadata \in MetadataTable[page.script][page.runs[k].tweetId] :
                page' = processUrlResumed(WithoutRun(page, k), page.runs[k].url, metadata)
    /\ UNCHANGED exceptPage

\* lines 1041 and 1843: a click on #download-gif-btn
DownloadGifCalled ==
    /\ page.pc = "ready"
    /\ ~page.gifBtnDisabled
    /\ page.saves < MaxSaves
    /\ page' = downloadGif([page EXCEPT !.saves = @ + 1])
    /\ UNCHANGED exceptPage

GifFulfilled ==
    /\ page.pc = "ready"
    /\ \E k \in 1 .. Len(page.conversions) : page' = downloadGifResumed(page, k)
    /\ UNCHANGED exceptPage

GifRejected ==
    /\ page.pc = "ready"
    /\ \E k \in 1 .. Len(page.conversions) : page' = downloadGifFailed(page, k)
    /\ UNCHANGED exceptPage

\* the page loaded with one of the scripts
InitPage ==
    /\ \E script \in {1, 2} :
          page = [pc |-> "ready", script |-> script, now |-> LoadTime, ticks |-> 0,
                  lastRequestTime |-> 0, requests |-> <<>>,
                  isProcessing |-> FALSE, submitDisabled |-> FALSE,
                  loading |-> FALSE, preview |-> FALSE, error |-> "hidden",
                  progress |-> 0, toast |-> "none", currentMediaData |-> NoMedia,
                  runs |-> <<>>, calls |-> 0, returned |-> 0, waits |-> 0,
                  conversions |-> <<>>,
                  gifBtnDisabled |-> FALSE, files |-> <<>>, saves |-> 0]
    /\ lzw = LzwIdle
    /\ dec = DecIdle
    /\ quant = QuantIdle
    /\ gif = GifIdle
    /\ conv = ConvIdle
    /\ ctl = CtlIdle

NextPage ==
    \/ ProcessUrlCalled
    \/ Tick
    \/ RateLimitOver
    \/ MetadataFetched
    \/ DownloadGifCalled
    \/ GifFulfilled
    \/ GifRejected

SpecPage == InitPage /\ [][NextPage]_vars

\* what the event loop does of itself: time passes, timers fire, fetches end
Progresses == Tick \/ RateLimitOver \/ MetadataFetched

\* the event loop does not stop while it has something to do
SpecPageFair == SpecPage /\ WF_vars(Progresses)

\* a call of processUrl made while isProcessing is set changes nothing: no
\* run, no request, and currentMediaData, the error banner and the progress
\* display as they were
ReturnedAtOnce ==
    (page.pc = "ready" /\ page.isProcessing /\ page'.calls # page.calls) =>
        page' = [page EXCEPT !.calls = @ + 1, !.returned = @ + 1]

\* C24: at most one run of processUrl is between setting isProcessing and
\* clearing it, and a call that arrives meanwhile returns at once
MutualExclusion ==
    /\ [](page.pc = "ready" =>
             /\ Len(page.runs) <= 1
             /\ page.isProcessing <=> Len(page.runs) = 1)
    /\ [][ReturnedAtOnce]_vars

\* a run is waiting for its metadata, its request made, and a call made since
\* (the Enter key: the button is disabled) has returned
MutualExclusionWitness ==
    /\ page.pc = "ready"
    /\ page.returned = 1
    /\ page.calls = 2
    /\ page.submitDisabled
    /\ Len(page.runs) = 1
    /\ page.runs[1].pc = "fetching"
    /\ Len(page.requests) = 1

\* a run of processUrl ends in this step
RunEnds == page.pc = "ready" /\ Len(page'.runs) < Len(page.runs)

\* C25: every run that set isProcessing clears it and enables the submit
\* button when its fetch has settled, on each exit; isProcessing is set by
\* started runs only, never by one rejected at validation
ReleasesGuard ==
    /\ [][RunEnds => (~page'.isProcessing /\ ~page'.submitDisabled /\ ~page'.loading)]_vars
    /\ [][(page.pc = "ready" /\ ~page.isProcessing /\ page'.isProcessing) =>
             Len(page'.runs) = Len(page.runs) + 1]_vars
    /\ (page.pc = "ready" /\ page.isProcessing) ~> ~page.isProcessing

\* the three exits taken: the run ended with an exception after another had
\* ended on an error of the metadata, or with media found
ReleasesGuardWitness ==
    /\ page.pc = "ready"
    /\ page.calls = 2
    /\ page.returned = 0
    /\ Len(page.requests) = 2
    /\ page.toast = "Failed to process URL"
    /\ page.progress = 50
    /\ ~page.isProcessing
    /\ ~page.submitDisabled

\* the saved GIF files are named after the tweet whose video was converted
NamedAfterSource ==
    \A k \in 1 .. Len(page.files) :
        page.files[k].filename = <<"twitter-gif-", page.files[k].of.tweet, ".gif">>

\* C26: the file saved by downloadGif is named twitter-gif-<id>.gif, <id> the
\* tweet of the mp4Url handed to convertVideoToGif, in every interleaving
FileNameMatches == page.pc = "ready" => NamedAfterSource

\* the same while the metadata of one tweet at most has been fetched
FileNameMatchesOneTweet ==
    (page.pc = "ready" /\ Len(page.requests) <= 1) => NamedAfterSource

\* C28: the values assigned one after the other to lastRequestTime are at
\* least RATE_LIMIT_MS apart, whatever calls of processUrl are made, those
\* made while a run is in flight included
RateLimitKept ==
    page.pc = "ready" =>
        /\ \A k \in 2 .. Len(page.requests) :
               page.requests[k] - page.requests[k - 1] >= RateLimitMs(page.script)
        /\ Len(page.requests) > 0 =>
               page.lastRequestTime = page.requests[Len(page.requests)]

\* a second request made by the first script after its timer has run out,
\* RATE_LIMIT_MS after the first
RateLimitKeptWitness ==
    /\ page.pc = "ready"
    /\ page.script = 1
    /\ page.waits = 1
    /\ Len(page.requests) = 2
    /\ page.requests[2] - page.requests[1] = RATE_LIMIT_MS

\* C29: when processUrl has taken its success path (currentMediaData
\* stored, preview and the toast 'Media found! Ready to download.' shown) the
\* stored mp4Url is a non-empty URL, whatever the strategies returned
SuccessHasUrl ==
    (page.pc = "ready" /\ page.toast = "Media found! Ready to download.") =>
        /\ page.currentMediaData.loaded
        /\ page.currentMediaData.mp4Url.type = "string"
        /\ page.currentMediaData.mp4Url.file # ""

\* the GIF action does nothing but show its error toast while no mp4Url is
\* stored, and a stored mp4Url that is a string belongs to the tweet stored
NoUrlNoConversion ==
    /\ [][(page.pc = "ready" /\ ~HasMp4(page) /\ page'.saves # page.saves) =>
             page' = [page EXCEPT !.saves = @ + 1,
                                  !.toast = "No media loaded. Paste a URL first!"]]_vars
    /\ [](page.pc = "ready" /\ page.currentMediaData.mp4Url.type = "string" =>
             page.currentMediaData.mp4Url.tweet = page.currentMediaData.tweetId)

====
